---- MODULE Spec2Model ----
(***************************************************************************)
(* Local-first synchronization core of substrate: the embedded store       *)
(* (workspaces, context, links), the push / pull / bidirectional sync      *)
(* engine of lib/sync and the remote service it talks to.                  *)
(*                                                                         *)
(* Timestamps are ISO-8601 strings in the program, produced by             *)
(* Date.toISOString(); their text order is their time order, so they are   *)
(* integers here.  NULL columns are 0, and the clock starts at 1.          *)
(* Every step of an async handler runs from one await to the next.         *)
(***************************************************************************)
EXTENDS Integers, Sequences, FiniteSets, TLC

\* ---------------------------------------------------------------- bounds
MaxItems == 3
MaxTime == 3
MaxPushTime == 2
MaxLinks == 1
MaxRemoteWs == 1
MaxRemoteWrites == 2
MaxSkewWrites == 1
MaxLinkedItems == 2
MaxPulledItems == 1
MaxReplicaItems == 1

\* ------------------------------------------------------------- constants
NULL == 0

Replicas == {"A", "B"}
Ids == 1..MaxItems
Times == 1..MaxTime
WsId == "w1"
WsName == "default"

\* the columns a caller supplies: type, content, tags, scope (meta is '{}')
Payloads ==
  { [type |-> "note", content |-> "API must return JSON", tags |-> "[]", scope |-> "*", meta |-> "{}"],
    [type |-> "decision", content |-> "Use PostgreSQL", tags |-> "[\"db\"]", scope |-> "src", meta |-> "{}"] }

NotePayload == CHOOSE p \in Payloads : p.type = "note"

\* what a remote item may carry on the wire: tags / scope / meta may be absent
WirePayloads ==
  Payloads \cup
  { [type |-> "task", content |-> "Ship it", tags |-> "undefined", scope |-> "undefined", meta |-> "undefined"] }

RELATION_TYPES == {"relates_to", "implements"}

VARIABLES
  now,         \* the wall clock
  workspaces,  \* workspaces[r][w]: the workspaces table of replica r
  context,     \* context[r][id]: the context table of replica r
  links,       \* links[r]: the links table of replica r (a set of rows)
  mounts,      \* mounts[r]: the mounts table of replica r (a set of rows)
  remoteWs,    \* number of workspaces the remote service has created
  remote,      \* remote[k][id]: the items of remote workspace k
  remoteLinks, \* links stored by the remote service
  call,        \* call[p]: the sync call process p is running, if any (on store p unless said)
  writes,      \* how many writes other clients have made to the remote
  stopped,     \* local edits have stopped (convergence runs)
  sessions,    \* sessions[r]: the sessions table of replica r (a set of rows)
  starting,    \* starting[r]: session start commands past their check, before their insert
  adding       \* adding[r]: the context add of another process that awaits api.addContext

vars == <<now, workspaces, context, links, mounts, remoteWs, remote, remoteLinks, call, writes, stopped, sessions, starting, adding>>

\* ------------------------------------------------------------- helpers
Max(S) == CHOOSE x \in S : \A y \in S : y <= x
Min(S) == CHOOSE x \in S : \A y \in S : x <= y

\* all sequences that enumerate the finite set S once each
SeqsOf(S) ==
  { s \in [1..Cardinality(S) -> S] : \A i, j \in 1..Cardinality(S) : i # j => s[i] # s[j] }

Rows(ctx) == { ctx[i] : i \in DOMAIN ctx }

\* ids in use anywhere, rows that still name a deleted item included
\* (randomUUID and the server never reuse one)
UsedIds ==
  UNION { DOMAIN context[r] : r \in Replicas }
    \cup UNION { DOMAIN remote[k] : k \in DOMAIN remote }
    \cup UNION { { l.from_id, l.to_id } : l \in UNION { links[r] : r \in Replicas } }

FreshIds == Ids \ UsedIds

NextRowid(ctx) == IF DOMAIN ctx = {} THEN 1 ELSE 1 + Max({ ctx[i].rowid : i \in DOMAIN ctx })

\* JSON.parse(item.tags || '[]') / JSON.parse(item.meta || '{}') on the way out
ParseOr(text, dflt) == IF text = "NULL" \/ text = "" THEN dflt ELSE text

\* JSON.stringify(remote.tags || []) / remote.scope || '*' on the way in
ValueOr(v, dflt) == IF v = "undefined" \/ v = "" THEN dflt ELSE v

\* 'workspace:xyz' -> 'xyz'; an id is <<prefix, key>> on the wire
StripWorkspacePrefix(id) == id[2]

\* a workspace that has no remote_id; remote workspace ids are <<prefix, key>>
NoRemote == <<"", 0>>
IsBound(w) == w.remote_id[2] # 0

WorkspaceRow(rid, t) ==
  [id |-> WsId, name |-> WsName, remote_id |-> rid, synced_at |-> t]

\* ------------------------------------------------------ the sync call
NoPush == [ran |-> FALSE, pushed |-> 0, failed |-> 0, errors |-> <<>>, error |-> "none"]
NoPull == [ran |-> FALSE, pulled |-> 0, updated |-> 0, skipped |-> 0, error |-> "none"]

\* no context add is waiting for its reply
NoAdd == [id |-> NULL, reply |-> NULL, at |-> NULL]

IdleCall ==
  [op |-> "idle", pc |-> "idle", ws |-> WsId, rws |-> 0,
   items |-> <<>>, lnks |-> <<>>, since |-> NULL,
   push |-> NoPush, pull |-> NoPull,
   \* history of the call, kept for the properties
   pre |-> <<>>, preWs |-> NoRemote, prePull |-> <<>>, snapshot |-> <<>>, log |-> <<>>]

Init ==
  /\ now = 1
  /\ \E rid \in {NoRemote, <<"workspace:", 1>>} :
       /\ workspaces = [r \in Replicas |-> (WsId :> WorkspaceRow(rid, IF rid = NoRemote THEN NULL ELSE 1))]
       /\ remoteWs = IF rid = NoRemote THEN 0 ELSE 1
       /\ remote = IF rid = NoRemote THEN <<>> ELSE (1 :> <<>>)
  /\ context = [r \in Replicas |-> <<>>]
  /\ links = [r \in Replicas |-> {}]
  /\ mounts = [r \in Replicas |-> {}]
  /\ sessions = [r \in Replicas |-> {}]
  /\ starting = [r \in Replicas |-> 0]
  /\ adding = [r \in Replicas |-> NoAdd]
  /\ remoteLinks = {}
  /\ call = [r \in Replicas |-> IdleCall]
  /\ writes = 0
  /\ stopped = FALSE

\* ------------------------------------------------------ local writes
Tick(maxT) ==
  /\ now < maxT
  /\ now' = now + 1
  /\ UNCHANGED <<workspaces, context, links, remoteWs, remote, remoteLinks, call, writes, stopped, mounts, sessions, starting, adding>>

\* what the server stores for a created or upserted item
RemoteItem(id, type, content, tags, scope, meta, created, updated) ==
  [id |-> id, type |-> type, content |-> content, tags |-> tags, scope |-> scope,
   meta |-> meta, created_at |-> created, updated_at |-> updated]

\* faulty variant: a thrown remote call undoes the INSERT
AddContextRollback(r, outs, cap, payloads) ==
  /\ ~stopped
  /\ call[r].pc = "idle"
  /\ WsId \in DOMAIN workspaces[r]
  /\ FreshIds # {}
  /\ Cardinality(DOMAIN context[r]) < cap
  /\ \E p \in payloads, o \in outs :
       LET id == Min(FreshIds)
           w == workspaces[r][WsId]
           row == [id |-> id, rowid |-> NextRowid(context[r]), workspace_id |-> WsId,
                   type |-> p.type, content |-> p.content, tags |-> p.tags,
                   scope |-> p.scope, meta |-> "{}", remote_id |-> NULL,
                   created_at |-> now, updated_at |-> now,
                   synced_at |-> NULL, deleted_at |-> NULL]
       IN IF o = "ok" /\ IsBound(w) /\ FreshIds \ {id} # {}
          THEN LET rid == Min(FreshIds \ {id})
                   k == StripWorkspacePrefix(w.remote_id)
               IN /\ remote' = [remote EXCEPT ![k] =
                       @ @@ (rid :> RemoteItem(rid, p.type, p.content, p.tags, p.scope, "{}", now, now))]
                  /\ context' = [context EXCEPT ![r] =
                       @ @@ (id :> [row EXCEPT !.remote_id = rid, !.synced_at = now])]
          ELSE /\ context' = IF o = "throw" THEN context
                             ELSE [context EXCEPT ![r] = @ @@ (id :> row)]
               /\ UNCHANGED remote
  /\ UNCHANGED <<now, workspaces, links, remoteWs, remoteLinks, call, writes, stopped, mounts, sessions, starting, adding>>

\* add (the shorthand, which has no duplicate check, and context add past its
\* check): INSERT, then api.addContext and, when it returns context.id,
\* UPDATE context SET remote_id, synced_at = the insert's timestamp
AddContext(r, outs, cap, payloads) ==
  /\ ~stopped
  /\ call[r].pc = "idle"
  /\ WsId \in DOMAIN workspaces[r]
  /\ FreshIds # {}
  /\ Cardinality(DOMAIN context[r]) < cap
  /\ \E p \in payloads, o \in outs :
       LET id == Min(FreshIds)
           w == workspaces[r][WsId]
           row == [id |-> id, rowid |-> NextRowid(context[r]), workspace_id |-> WsId,
                   type |-> p.type, content |-> p.content, tags |-> p.tags,
                   scope |-> p.scope, meta |-> "{}", remote_id |-> NULL,
                   created_at |-> now, updated_at |-> now,
                   synced_at |-> NULL, deleted_at |-> NULL]
       IN IF o = "ok" /\ IsBound(w) /\ FreshIds \ {id} # {}
          THEN LET rid == Min(FreshIds \ {id})
                   k == StripWorkspacePrefix(w.remote_id)
               IN /\ remote' = [remote EXCEPT ![k] =
                       @ @@ (rid :> RemoteItem(rid, p.type, p.content, p.tags, p.scope, "{}", now, now))]
                  /\ context' = [context EXCEPT ![r] =
                       @ @@ (id :> [row EXCEPT !.remote_id = rid, !.synced_at = now])]
          ELSE /\ context' = [context EXCEPT ![r] = @ @@ (id :> row)]
               /\ UNCHANGED remote
  /\ UNCHANGED <<now, workspaces, links, remoteWs, remoteLinks, call, writes, stopped, mounts, sessions, starting, adding>>

\* faulty variant: a link in the other direction also counts as existing
LinkExistsEitherWay(lks, f, t) ==
  \E l \in lks : (l.from_id = f /\ l.to_id = t) \/ (l.from_id = t /\ l.to_id = f)

\* SELECT * FROM links WHERE from_id = ? AND to_id = ?
LinkExists(lks, f, t) == \E l \in lks : l.from_id = f /\ l.to_id = t

\* link add of the ordered pair (f, t): both items found in the workspace, the
\* duplicate check, INSERT INTO links, then api.linkContext; a rejected command
\* exits before the INSERT and before the remote call
LinkAddPair(r, f, t, outs, cap) ==
  /\ ~stopped
  /\ call[r].pc = "idle"
  /\ WsId \in DOMAIN workspaces[r]
  /\ Cardinality(links[r]) < cap
  /\ f \in DOMAIN context[r] /\ t \in DOMAIN context[r]
  /\ \E rel \in RELATION_TYPES, o \in outs :
       LET w == workspaces[r][WsId]
           fromItem == context[r][f]
           toItem == context[r][t]
           link == [id |-> 1 + Cardinality(links[r]), from_id |-> f, to_id |-> t,
                    relation |-> rel, created_at |-> now]
       IN /\ fromItem.workspace_id = WsId /\ toItem.workspace_id = WsId
          /\ ~LinkExists(links[r], f, t)
          /\ links' = [links EXCEPT ![r] = @ \cup {link}]
          /\ IF o = "ok" /\ IsBound(w)
             THEN remoteLinks' = remoteLinks \cup
                    { [ws |-> StripWorkspacePrefix(w.remote_id),
                       from |-> IF fromItem.remote_id # NULL THEN fromItem.remote_id ELSE f,
                       to |-> IF toItem.remote_id # NULL THEN toItem.remote_id ELSE t,
                       relation |-> rel] }
             ELSE UNCHANGED remoteLinks
  /\ UNCHANGED <<now, workspaces, context, remoteWs, remote, call, writes, stopped, mounts, sessions, starting, adding>>

LinkAdd(r, outs, cap) == \E f \in Ids, t \in Ids : LinkAddPair(r, f, t, outs, cap)

\* faulty variant: the delete removes the row
SoftDeleteRemovesRow(r) ==
  /\ ~stopped
  /\ call[r].pc = "idle"
  /\ \E id \in DOMAIN context[r] :
       /\ context[r][id].deleted_at = NULL
       /\ context' = [context EXCEPT ![r] = [i \in DOMAIN @ \ {id} |-> @[i]]]
  /\ UNCHANGED <<now, workspaces, links, remoteWs, remote, remoteLinks, call, writes, stopped, mounts, sessions, starting, adding>>

\* soft delete: UPDATE context SET deleted_at = now WHERE id = ?
SoftDelete(r) ==
  /\ ~stopped
  /\ call[r].pc = "idle"
  /\ \E id \in DOMAIN context[r] :
       /\ context[r][id].deleted_at = NULL
       /\ context' = [context EXCEPT ![r][id].deleted_at = now]
  /\ UNCHANGED <<now, workspaces, links, remoteWs, remote, remoteLinks, call, writes, stopped, mounts, sessions, starting, adding>>

\* another client of the remote service upserts an item of workspace k
RemoteWrite(cap, payloads) ==
  /\ ~stopped
  /\ writes < cap
  /\ writes' = writes + 1
  /\ \E k \in DOMAIN remote, id \in Ids, p \in payloads, ts \in Times :
       /\ id \in DOMAIN remote[k] \/ (id \in FreshIds /\ id = Min(FreshIds))
       /\ IF id \in DOMAIN remote[k]
          THEN /\ ts >= remote[k][id].created_at
               /\ remote' = [remote EXCEPT ![k][id] =
                    RemoteItem(id, p.type, p.content, p.tags, p.scope, p.meta, @.created_at, ts)]
          ELSE remote' = [remote EXCEPT ![k] =
                    @ @@ (id :> RemoteItem(id, p.type, p.content, p.tags, p.scope, p.meta, ts, ts))]
  /\ UNCHANGED <<now, workspaces, context, links, remoteWs, remoteLinks, call, stopped, mounts, sessions, starting, adding>>

\* ------------------------------------------------------ store commands
MaxStoreItems == 2
MaxPushedLinks == 2
MaxResumeItems == 2
MaxStoreLinks == 2
MaxInits == 2

\* directories a mount may name
Paths == {"/repo"}

\* init: no workspace of that name yet; INSERT INTO workspaces, then
\* api.createWorkspace and, when the reply has workspace.id, UPDATE workspaces
\* SET remote_id, synced_at = the insert's timestamp; a throw is ignored
InitWorkspace(r, outs) ==
  /\ ~stopped
  /\ call[r].pc = "idle"
  /\ WsId \notin DOMAIN workspaces[r]
  /\ \E o \in outs :
       LET k == remoteWs + 1
       IN IF o = "ok" /\ remoteWs >= MaxInits THEN FALSE
          ELSE IF o = "ok"
          THEN /\ remoteWs' = k
               /\ remote' = remote @@ (k :> <<>>)
               /\ workspaces' = [workspaces EXCEPT ![r] =
                    (WsId :> WorkspaceRow(<<"workspace:", k>>, now))]
          ELSE /\ workspaces' = [workspaces EXCEPT ![r] = (WsId :> WorkspaceRow(NoRemote, NULL))]
               /\ UNCHANGED <<remoteWs, remote>>
  /\ UNCHANGED <<now, context, links, mounts, remoteLinks, call, writes, stopped, sessions, starting, adding>>

\* the MCP add tool: INSERT INTO context only, no remote call
HandleAdd(r, cap, payloads) ==
  /\ ~stopped
  /\ call[r].pc = "idle"
  /\ WsId \in DOMAIN workspaces[r]
  /\ FreshIds # {}
  /\ Cardinality(DOMAIN context[r]) < cap
  /\ \E p \in payloads :
       LET id == Min(FreshIds)
       IN context' = [context EXCEPT ![r] = @ @@
            (id :> [id |-> id, rowid |-> NextRowid(context[r]), workspace_id |-> WsId,
                    type |-> p.type, content |-> p.content, tags |-> p.tags,
                    scope |-> p.scope, meta |-> "{}", remote_id |-> NULL,
                    created_at |-> now, updated_at |-> now,
                    synced_at |-> NULL, deleted_at |-> NULL])]
  /\ UNCHANGED <<now, workspaces, links, mounts, remoteWs, remote, remoteLinks, call, writes, stopped, sessions, starting, adding>>

\* shortId: id.substring(0, 8). The ids 1 and 2 stand for two identifiers with
\* the same first 8 characters, every other id has first 8 characters of its own
ShortId(id) == (id + 1) \div 2

\* what a command is given as an identifier: a whole id, or its first 8 characters
FullArg(id) == [short |-> FALSE, v |-> id]
ShortArg(id) == [short |-> TRUE, v |-> ShortId(id)]
FullArgs == { FullArg(id) : id \in Ids }
IdArgs == FullArgs \cup { ShortArg(id) : id \in Ids }

\* id LIKE 'arg%'
Like(id, arg) == IF arg.short THEN ShortId(id) = arg.v ELSE id = arg.v

\* SELECT * FROM context WHERE workspace_id = ? AND id LIKE ?: the rows the
\* identifier names
ShortIdMatches(ctx, shortId, w) ==
  { x \in Rows(ctx) : x.workspace_id = w /\ Like(x.id, shortId) }

\* findContextByShortId: found only when exactly one row matches
FindContextByShortId(ctx, shortId, w) ==
  LET items == ShortIdMatches(ctx, shortId, w)
  IN IF Cardinality(items) = 1
     THEN [found |-> TRUE, item |-> CHOOSE x \in items : TRUE]
     ELSE [found |-> FALSE]

\* context list: SELECT * FROM context WHERE workspace_id = ? ORDER BY
\* created_at DESC LIMIT ? (no type or tag option, limit above the row count)
ContextList(ctx, w) == { x \in Rows(ctx) : x.workspace_id = w }

\* MCP brief: SELECT * FROM context WHERE workspace_id = ? ORDER BY type rank
HandleBrief(ctx, w) == { x \in Rows(ctx) : x.workspace_id = w }

\* MCP recall (no query, no type): SELECT * FROM context WHERE workspace_id = ?
\* AND created_at >= cutoff
HandleRecall(ctx, w, cutoff) ==
  { x \in Rows(ctx) : x.workspace_id = w /\ x.created_at >= cutoff }

\* MCP digest: SELECT * FROM context WHERE workspace_id = ? AND created_at >= cutoff
HandleDigest(ctx, w, cutoff) ==
  { x \in Rows(ctx) : x.workspace_id = w /\ x.created_at >= cutoff }

\* the next AUTOINCREMENT id of the links table
NextLinkId(lks) == 1 + Max({0} \cup { l.id : l \in lks })

\* the MCP link tool: both items looked up by short id, then INSERT INTO links
\* with no look at the rows already there, and no remote call
HandleLinkOf(r, from, to, cap) ==
  /\ ~stopped
  /\ call[r].pc = "idle"
  /\ WsId \in DOMAIN workspaces[r]
  /\ Cardinality(links[r]) < cap
  /\ \E rel \in RELATION_TYPES :
       \* .get() returns the first row of the query, whichever that is
       \E fromItem \in ShortIdMatches(context[r], from, WsId),
          toItem \in ShortIdMatches(context[r], to, WsId) :
         links' = [links EXCEPT ![r] = @ \cup
            { [id |-> NextLinkId(links[r]), from_id |-> fromItem.id, to_id |-> toItem.id,
               relation |-> rel, created_at |-> now] }]
  /\ UNCHANGED <<now, workspaces, context, mounts, remoteWs, remote, remoteLinks, call, writes, stopped, sessions, starting, adding>>

HandleLink(r, cap, args) == \E from \in args, to \in args : HandleLinkOf(r, from, to, cap)

\* link add given identifiers: findContextByShortId must find exactly one item
\* for each, else the command exits with 1; then as link add of the two items
LinkAddOf(r, from, to, outs, cap) ==
  LET fromResult == FindContextByShortId(context[r], from, WsId)
      toResult == FindContextByShortId(context[r], to, WsId)
  IN /\ fromResult.found /\ toResult.found
     /\ LinkAddPair(r, fromResult.item.id, toResult.item.id, outs, cap)

\* mount add: workspace found, path not mounted yet; INSERT INTO mounts, then
\* api.createMount whose outcome is ignored
MountAdd(r, outs, paths) ==
  /\ ~stopped
  /\ call[r].pc = "idle"
  /\ WsId \in DOMAIN workspaces[r]
  /\ \E path \in paths, o \in outs :
       /\ \A m \in mounts[r] : m.path # path
       /\ mounts' = [mounts EXCEPT ![r] = @ \cup
            { [id |-> 1 + Max({0} \cup { m.id : m \in @ }), workspace_id |-> WsId,
               path |-> path, created_at |-> now, updated_at |-> now] }]
  /\ UNCHANGED <<now, workspaces, context, links, remoteWs, remote, remoteLinks, call, writes, stopped, sessions, starting, adding>>

\* project unpin: with --delete-local the workspace row, its context rows and
\* its mounts are deleted; without it only the project file goes
Unpin(r) ==
  /\ ~stopped
  /\ call[r].pc = "idle"
  /\ WsId \in DOMAIN workspaces[r]
  /\ \E deleteLocal \in BOOLEAN :
       IF deleteLocal
       THEN /\ context' = [context EXCEPT ![r] =
                 [id \in { i \in DOMAIN @ : @[i].workspace_id # WsId } |-> @[id]]]
            /\ mounts' = [mounts EXCEPT ![r] = { m \in @ : m.workspace_id # WsId }]
            /\ workspaces' = [workspaces EXCEPT ![r] =
                 [w \in DOMAIN @ \ {WsId} |-> @[w]]]
       ELSE UNCHANGED <<context, mounts, workspaces>>
  /\ UNCHANGED <<now, links, remoteWs, remote, remoteLinks, call, writes, stopped, sessions, starting, adding>>

\* ------------------------------------------------------ push (lib/sync)
Epoch == 0
Coalesce(x, dflt) == IF x = NULL THEN dflt ELSE x

LogEntry(what, id, out, t) == [call |-> what, id |-> id, out |-> out, at |-> t]

\* Count items needing push (sync status): never synced or modified since last sync
PendingPush(row, w) ==
  /\ row.workspace_id = w
  /\ row.deleted_at = NULL
  /\ (row.synced_at = NULL \/ row.updated_at > row.synced_at)

\* faulty variant: the selection forgets the deleted_at IS NULL filter
SelectPendingWithDeleted(ctx, w) ==
  { row \in Rows(ctx) :
      /\ row.workspace_id = w
      /\ (row.synced_at = NULL \/ row.updated_at > row.synced_at) }

\* SELECT * FROM context WHERE workspace_id = ? AND deleted_at IS NULL
\*   AND (synced_at IS NULL OR updated_at > synced_at)
SelectPending(ctx, w) ==
  { row \in Rows(ctx) :
      /\ row.workspace_id = w
      /\ row.deleted_at = NULL
      /\ (row.synced_at = NULL \/ row.updated_at > row.synced_at) }

\* ... ORDER BY created_at ASC (rows of equal created_at come in any order)
PendingOrders(ctx, w) ==
  { s \in SeqsOf(SelectPending(ctx, w)) :
      \A i, j \in 1..Len(s) : i < j => s[i].created_at <= s[j].created_at }

\* SELECT l.* FROM links l JOIN context c ON l.from_id = c.id
\*   WHERE c.workspace_id = ? AND l.created_at > COALESCE(c.synced_at, '1970-01-01')
SelectLinks(ctx, lks, w) ==
  { l \in lks :
      /\ l.from_id \in DOMAIN ctx
      /\ ctx[l.from_id].workspace_id = w
      /\ l.created_at > Coalesce(ctx[l.from_id].synced_at, Epoch) }

SortById(S) == CHOOSE s \in SeqsOf(S) : \A i, j \in 1..Len(s) : i < j => s[i].id < s[j].id

\* SELECT MAX(synced_at) FROM context WHERE workspace_id = ?
MaxSynced(ctx, w) ==
  LET S == { row.synced_at : row \in { x \in Rows(ctx) : x.workspace_id = w /\ x.synced_at # NULL } }
  IN IF S = {} THEN NULL ELSE Max(S)

\* pullChanges up to its await of api.syncPull
BeginPull(c, ctx, wss) ==
  IF c.ws \notin DOMAIN wss
  THEN [c EXCEPT !.pc = "done", !.pull.ran = TRUE, !.pull.error = "Workspace not found"]
  ELSE IF ~IsBound(wss[c.ws])
  THEN [c EXCEPT !.pc = "done", !.pull.ran = TRUE, !.pull.error = "Workspace not synced to remote yet"]
  ELSE [c EXCEPT !.pc = "fetch", !.pull.ran = TRUE,
                 !.rws = StripWorkspacePrefix(wss[c.ws].remote_id),
                 !.since = MaxSynced(ctx, c.ws)]

\* faulty variant: a failed item push also keeps syncWorkspace from pulling
FinishPushUnlessFailed(c, ctx, wss) ==
  IF c.op = "sync" /\ c.push.failed = 0 THEN BeginPull(c, ctx, wss) ELSE [c EXCEPT !.pc = "done"]

\* syncWorkspace after pushChanges has returned without a top-level error
FinishPush(c, ctx, wss) ==
  IF c.op = "sync" THEN BeginPull(c, ctx, wss) ELSE [c EXCEPT !.pc = "done"]

\* faulty variant: syncWorkspace starts pullChanges without awaiting pushChanges
AdvanceUnawaited(c, ctx, lks, wss) ==
  IF c.op = "sync" /\ ~c.pull.ran THEN BeginPull(c, ctx, wss)
  ELSE IF c.items # <<>> THEN [c EXCEPT !.pc = "item"]
  ELSE [c EXCEPT !.pc = "done"]

\* pushChanges from the end of one remote call to the next await
Advance(c, ctx, lks, wss) ==
  IF c.items # <<>> THEN [c EXCEPT !.pc = "item"]
  ELSE IF c.pc # "link"
  THEN LET ls == SortById(SelectLinks(ctx, lks, c.ws))
       IN IF ls # <<>> THEN [c EXCEPT !.pc = "link", !.lnks = ls]
          ELSE FinishPush(c, ctx, wss)
  ELSE IF c.lnks # <<>> THEN c
  ELSE FinishPush(c, ctx, wss)

\* pushChanges / syncWorkspace up to the first await
PushBeginAt(p, r, op, names) ==
  /\ call[p].pc = "idle"
  /\ \E w \in names :
       LET c0 == [IdleCall EXCEPT !.op = op, !.ws = w, !.push.ran = TRUE, !.pre = context[r],
                    !.preWs = IF w \in DOMAIN workspaces[r] THEN workspaces[r][w].remote_id ELSE NoRemote]
       IN IF w \notin DOMAIN workspaces[r]
          THEN call' = [call EXCEPT ![p] = [c0 EXCEPT !.pc = "done", !.push.error = "Workspace not found"]]
          ELSE IF ~IsBound(workspaces[r][w])
          THEN call' = [call EXCEPT ![p] = [c0 EXCEPT !.pc = "create"]]
          ELSE \E items \in PendingOrders(context[r], w) :
                 call' = [call EXCEPT ![p] =
                   Advance([c0 EXCEPT !.rws = StripWorkspacePrefix(workspaces[r][w].remote_id),
                                      !.items = items],
                           context[r], links[r], workspaces[r])]
  /\ UNCHANGED <<now, workspaces, context, links, remoteWs, remote, remoteLinks, writes, stopped, mounts, sessions, starting, adding>>

\* the same, by the one process of replica r
PushBegin(r, op, names) == PushBeginAt(r, r, op, names)

\* the workspace argument of a call: the project's workspace or an unknown id
WsArgs == {WsId, "missing"}

SyncPush(r) == PushBegin(r, "push", WsArgs)

SyncBoth(r) == PushBegin(r, "sync", WsArgs)

\* `substrate sync` run in the project directory of the bound workspace
SyncBound(r) == PushBegin(r, "sync", {WsId})

\* the reply of api.createWorkspace: {id} or the offline sentinel
CreateReply(o, k) ==
  IF o = "ok" THEN [id |-> <<"workspace:", k>>] ELSE [offline |-> TRUE, error |-> "API unavailable"]

\* faulty variant: created.id?.replace, so a reply without an id is not an error
CreateFailedOnThrowOnly(o, created) == o = "throw"

\* the try block around createWorkspace: a throw, or created.id.replace on a reply
\* without an id (a TypeError), lands in the catch
CreateFailed(o, created) == o = "throw" \/ "id" \notin DOMAIN created

\* faulty variant: the returned id is used for the call but never written to the row
BindWorkspaceNotPersisted(w, remoteWorkspaceId, t) == w

\* UPDATE workspaces SET remote_id = ?, synced_at = ? WHERE id = ?
BindWorkspace(w, remoteWorkspaceId, t) ==
  [w EXCEPT !.remote_id = <<"", remoteWorkspaceId>>, !.synced_at = t]

\* api.createWorkspace returns (or throws): bind the workspace, select the items
PushCreateWorkspaceAt(p, r, outs, maxWs) ==
  /\ call[p].pc = "create"
  /\ \E o \in outs :
       LET c == [call[p] EXCEPT !.log = Append(@, LogEntry("createWorkspace", 0, o, now))]
           k == remoteWs + 1
           created == CreateReply(o, k)
       IN IF o = "ok" /\ remoteWs >= maxWs THEN FALSE
          ELSE IF ~CreateFailed(o, created)
          THEN LET remoteWorkspaceId == IF "id" \in DOMAIN created
                                        THEN StripWorkspacePrefix(created.id) ELSE 0
                   wss == [workspaces[r] EXCEPT ![c.ws] = BindWorkspace(@, remoteWorkspaceId, now)]
               IN /\ remoteWs' = k
                  /\ remote' = remote @@ (k :> <<>>)
                  /\ workspaces' = [workspaces EXCEPT ![r] = wss]
                  /\ \E items \in PendingOrders(context[r], c.ws) :
                       call' = [call EXCEPT ![p] =
                         Advance([c EXCEPT !.rws = remoteWorkspaceId, !.items = items],
                                 context[r], links[r], wss)]
          ELSE /\ call' = [call EXCEPT ![p] =
                    [c EXCEPT !.pc = "done", !.push.error = "Failed to create remote workspace"]]
               /\ UNCHANGED <<workspaces, remoteWs, remote>>
  /\ UNCHANGED <<now, context, links, remoteLinks, writes, stopped, mounts, sessions, starting, adding>>

\* the same, by the one process of replica r
PushCreateWorkspace(r, outs) == PushCreateWorkspaceAt(r, r, outs, MaxRemoteWs)

\* the body of one item sent by push
PushBody(item) ==
  RemoteItem(item.id, item.type, item.content, ParseOr(item.tags, "[]"), item.scope,
             ParseOr(item.meta, "{}"), item.created_at, item.updated_at)

\* the reply of api.syncPush for one item
PushReply(o, item) ==
  IF o = "ok" THEN [items |-> <<[id |-> item.id]>>] ELSE [offline |-> TRUE, error |-> "API unavailable"]

\* faulty variant: the row is stamped before the reply is looked at
StampItemAlways(ctx, c, item, o, t) ==
  LET response == PushReply(o, item)
      stamped == [ctx EXCEPT ![item.id].remote_id = item.id, ![item.id].synced_at = t]
  IN IF o = "throw" \/ "error" \in DOMAIN response
     THEN [ctx |-> stamped,
           push |-> [c.push EXCEPT !.failed = @ + 1, !.errors = Append(@, item.id)]]
     ELSE [ctx |-> stamped, push |-> [c.push EXCEPT !.pushed = @ + 1]]

\* faulty variant: a success records remote_id but leaves synced_at alone
StampItemRemoteIdOnly(ctx, c, item, o, t) ==
  LET response == PushReply(o, item)
  IN IF o = "throw" \/ "error" \in DOMAIN response
     THEN [ctx |-> ctx,
           push |-> [c.push EXCEPT !.failed = @ + 1, !.errors = Append(@, item.id)]]
     ELSE [ctx |-> [ctx EXCEPT ![item.id].remote_id = response.items[1].id],
           push |-> [c.push EXCEPT !.pushed = @ + 1]]

\* the local effect of one item's reply: stamp the row or record the failure
StampItem(ctx, c, item, o, t) ==
  LET response == PushReply(o, item)
  IN IF o = "throw" \/ "error" \in DOMAIN response
     THEN [ctx |-> ctx,
           push |-> [c.push EXCEPT !.failed = @ + 1, !.errors = Append(@, item.id)]]
     ELSE [ctx |-> [ctx EXCEPT ![item.id].remote_id = response.items[1].id,
                               ![item.id].synced_at = t],
           push |-> [c.push EXCEPT !.pushed = @ + 1]]

\* faulty variant: an item whose call failed stays at the head of the loop and is
\* sent again
PushItemRetry(r, outs) ==
  /\ call[r].pc = "item"
  /\ \E o \in outs :
       LET c == call[r]
           item == Head(c.items)
           st == StampItem(context[r], c, item, o, now)
           c1 == [c EXCEPT !.items = IF o = "ok" THEN Tail(@) ELSE @, !.push = st.push,
                           !.log = Append(@, LogEntry("syncPush", item.id, o, now))]
       IN /\ context' = [context EXCEPT ![r] = st.ctx]
          /\ remote' = IF o = "ok"
                       THEN [remote EXCEPT ![c.rws] =
                               [i \in DOMAIN @ \cup {item.id} |->
                                  IF i = item.id THEN PushBody(item) ELSE @[i]]]
                       ELSE remote
          /\ call' = [call EXCEPT ![r] = Advance(c1, st.ctx, links[r], workspaces[r])]
  /\ UNCHANGED <<now, workspaces, links, remoteWs, remoteLinks, writes, stopped, mounts, sessions, starting, adding>>

\* one iteration of the item loop: api.syncPush for the next item returns or throws
PushItemAt(p, r, outs) ==
  /\ call[p].pc = "item"
  /\ \E o \in outs :
       LET c == call[p]
           item == Head(c.items)
           st == StampItem(context[r], c, item, o, now)
           c1 == [c EXCEPT !.items = Tail(@), !.push = st.push,
                           !.log = Append(@, LogEntry("syncPush", item.id, o, now))]
       IN /\ context' = [context EXCEPT ![r] = st.ctx]
          /\ remote' = IF o = "ok"
                       THEN [remote EXCEPT ![c.rws] =
                               [i \in DOMAIN @ \cup {item.id} |->
                                  IF i = item.id THEN PushBody(item) ELSE @[i]]]
                       ELSE remote
          /\ call' = [call EXCEPT ![p] = Advance(c1, st.ctx, links[r], workspaces[r])]
  /\ UNCHANGED <<now, workspaces, links, remoteWs, remoteLinks, writes, stopped, mounts, sessions, starting, adding>>

\* the same, by the one process of replica r
PushItem(r, outs) == PushItemAt(r, r, outs)

\* faulty variant: no try/catch around api.linkContext, a throw ends the push
PushLinkUncaught(r, outs) ==
  /\ call[r].pc = "link"
  /\ \E o \in outs :
       LET c == call[r]
           link == Head(c.lnks)
           c1 == [c EXCEPT !.lnks = Tail(@),
                           !.log = Append(@, LogEntry("linkContext", link.id, o, now))]
       IN /\ remoteLinks' = IF o = "ok"
                            THEN remoteLinks \cup
                                   { [ws |-> c.rws, from |-> link.from_id, to |-> link.to_id,
                                      relation |-> link.relation] }
                            ELSE remoteLinks
          /\ call' = [call EXCEPT ![r] =
               IF o = "throw" THEN [c1 EXCEPT !.pc = "done", !.push.error = "linkContext failed"]
               ELSE Advance(c1, context[r], links[r], workspaces[r])]
  /\ UNCHANGED <<now, workspaces, context, links, remoteWs, remote, writes, stopped, mounts, sessions, starting, adding>>

\* one iteration of the link loop: api.linkContext returns or throws, errors ignored
PushLink(r, outs) ==
  /\ call[r].pc = "link"
  /\ \E o \in outs :
       LET c == call[r]
           link == Head(c.lnks)
           c1 == [c EXCEPT !.lnks = Tail(@),
                           !.log = Append(@, LogEntry("linkContext", link.id, o, now))]
       IN /\ remoteLinks' = IF o = "ok"
                            THEN remoteLinks \cup
                                   { [ws |-> c.rws, from |-> link.from_id, to |-> link.to_id,
                                      relation |-> link.relation] }
                            ELSE remoteLinks
          /\ call' = [call EXCEPT ![r] = Advance(c1, context[r], links[r], workspaces[r])]
  /\ UNCHANGED <<now, workspaces, context, links, remoteWs, remote, writes, stopped, mounts, sessions, starting, adding>>

\* ------------------------------------------------------ pull (lib/sync)
\* GET /api/sync/:workspace/changes?since= : SELECT * WHERE updated_at > $since,
\* every item when since is omitted
SyncPullItems(k, since) ==
  IF k \notin DOMAIN remote THEN {}
  ELSE { remote[k][i] : i \in { j \in DOMAIN remote[k] : since = NULL \/ remote[k][j].updated_at > since } }

\* SELECT * FROM context WHERE id = ? OR remote_id = ?  (.get: the first row of the scan)
FindLocal(ctx, rid) ==
  LET m == { row \in Rows(ctx) : row.id = rid \/ row.remote_id = rid }
  IN IF m = {} THEN {} ELSE { CHOOSE row \in m : \A x \in m : row.rowid <= x.rowid }

\* faulty variant: a remote copy with the same timestamp also wins
RemoteIsNewerOrSame(remoteItem, local) == remoteItem.updated_at >= local.updated_at

\* faulty variant: any remote copy with another timestamp wins
RemoteIsDifferent(remoteItem, local) == remoteItem.updated_at # local.updated_at

\* new Date(remote.updated_at).getTime() > new Date(local.updated_at).getTime()
RemoteIsNewer(remoteItem, local) == remoteItem.updated_at > local.updated_at

\* faulty variant: the update also clears deleted_at
OverwriteRowUndelete(local, remoteItem, t) ==
  [local EXCEPT !.type = remoteItem.type,
                !.content = remoteItem.content,
                !.tags = ValueOr(remoteItem.tags, "[]"),
                !.scope = ValueOr(remoteItem.scope, "*"),
                !.meta = ValueOr(remoteItem.meta, "{}"),
                !.updated_at = remoteItem.updated_at,
                !.synced_at = t,
                !.deleted_at = NULL]

\* faulty variant: the update also sets created_at, to the time of the pull
OverwriteRowRestampsCreated(local, remoteItem, t) ==
  [local EXCEPT !.type = remoteItem.type,
                !.content = remoteItem.content,
                !.tags = ValueOr(remoteItem.tags, "[]"),
                !.scope = ValueOr(remoteItem.scope, "*"),
                !.meta = ValueOr(remoteItem.meta, "{}"),
                !.created_at = t,
                !.updated_at = remoteItem.updated_at,
                !.synced_at = t]

\* UPDATE context SET type, content, tags, scope, meta, updated_at, synced_at WHERE id = ?
OverwriteRow(local, remoteItem, t) ==
  [local EXCEPT !.type = remoteItem.type,
                !.content = remoteItem.content,
                !.tags = ValueOr(remoteItem.tags, "[]"),
                !.scope = ValueOr(remoteItem.scope, "*"),
                !.meta = ValueOr(remoteItem.meta, "{}"),
                !.updated_at = remoteItem.updated_at,
                !.synced_at = t]

\* one iteration of the pull loop on the store ctx, at time t
PullOne(res, ws, remoteItem, t) ==
  LET ctx == res.ctx
      found == FindLocal(ctx, remoteItem.id)
  IN IF found = {}
     THEN [res EXCEPT
             !.ctx = ctx @@ (remoteItem.id :>
                       [id |-> remoteItem.id, rowid |-> NextRowid(ctx), workspace_id |-> ws,
                        type |-> remoteItem.type, content |-> remoteItem.content,
                        tags |-> ValueOr(remoteItem.tags, "[]"),
                        scope |-> ValueOr(remoteItem.scope, "*"),
                        meta |-> ValueOr(remoteItem.meta, "{}"),
                        remote_id |-> remoteItem.id,
                        created_at |-> remoteItem.created_at,
                        updated_at |-> remoteItem.updated_at,
                        synced_at |-> t, deleted_at |-> NULL]),
             !.pulled = @ + 1]
     ELSE LET local == CHOOSE row \in found : TRUE
          IN IF RemoteIsNewer(remoteItem, local)
             THEN [res EXCEPT
                     !.ctx = [ctx EXCEPT ![local.id] = OverwriteRow(@, remoteItem, t)],
                     !.updated = @ + 1]
             ELSE [res EXCEPT !.skipped = @ + 1]

\* the pull loop over the fetched items, in the order the server sent them
RECURSIVE ApplyPull(_, _, _, _)
ApplyPull(res, ws, items, t) ==
  IF items = <<>> THEN res
  ELSE ApplyPull(PullOne(res, ws, Head(items), t), ws, Tail(items), t)

PullStart(ctx) == [ctx |-> ctx, pulled |-> 0, updated |-> 0, skipped |-> 0]

\* pullChanges of one of the named workspaces up to its await
PullBegin(r, names) ==
  /\ call[r].pc = "idle"
  /\ \E w \in names :
       call' = [call EXCEPT ![r] =
                  BeginPull([IdleCall EXCEPT !.op = "pull", !.ws = w, !.pre = context[r],
                      !.preWs = IF w \in DOMAIN workspaces[r] THEN workspaces[r][w].remote_id ELSE NoRemote],
                    context[r], workspaces[r])]
  /\ UNCHANGED <<now, workspaces, context, links, remoteWs, remote, remoteLinks, writes, stopped, mounts, sessions, starting, adding>>

\* pullChanges up to its await
SyncPull(r) == PullBegin(r, WsArgs)

\* the reply of api.syncPull: {items} or the offline sentinel
PullReply(o, items) ==
  IF o = "ok" THEN [items |-> items] ELSE [offline |-> TRUE, error |-> "API unavailable"]

\* api.syncPull returns (or throws); the loop over the items has no await
PullFetch(r, outs) ==
  /\ call[r].pc = "fetch"
  /\ \E o \in outs :
       \E snap \in IF o = "ok" THEN SeqsOf(SyncPullItems(call[r].rws, call[r].since)) ELSE {<<>>} :
         LET c == [call[r] EXCEPT !.log = Append(@, LogEntry("syncPull", 0, o, now)),
                                  !.prePull = context[r], !.snapshot = snap]
             remoteItems == PullReply(o, snap)
         IN IF o = "throw"
            THEN /\ call' = [call EXCEPT ![r] =
                      [c EXCEPT !.pc = "done", !.pull.error = "Failed to fetch remote changes"]]
                 /\ UNCHANGED context
            ELSE IF "error" \in DOMAIN remoteItems
            THEN /\ call' = [call EXCEPT ![r] =
                      [c EXCEPT !.pc = "done", !.pull.error = remoteItems.error]]
                 /\ UNCHANGED context
            ELSE LET res == ApplyPull(PullStart(context[r]), c.ws, remoteItems.items, now)
                 IN /\ context' = [context EXCEPT ![r] = res.ctx]
                    /\ call' = [call EXCEPT ![r] =
                         [c EXCEPT !.pc = "done", !.pull.pulled = res.pulled,
                                   !.pull.updated = res.updated, !.pull.skipped = res.skipped]]
  /\ UNCHANGED <<now, workspaces, links, remoteWs, remote, remoteLinks, writes, stopped, mounts, sessions, starting, adding>>

\* the call returns its result to the command, which prints it and exits
Return(r) ==
  /\ call[r].pc = "done"
  /\ call' = [call EXCEPT ![r] = IdleCall]
  /\ UNCHANGED <<now, workspaces, context, links, remoteWs, remote, remoteLinks, writes, stopped, mounts, sessions, starting, adding>>

\* the process running the call is killed between two steps: nothing it holds
\* in memory survives, the store stays as the last completed statement left it
\* (a request for an item may have reached the remote already: delivered)
Interrupt(r) ==
  /\ call[r].pc \notin {"idle", "done"}
  /\ call' = [call EXCEPT ![r] = [IdleCall EXCEPT !.op = "killed"]]
  /\ \E delivered \in BOOLEAN :
       IF delivered /\ call[r].pc = "item"
       THEN LET item == Head(call[r].items)
            IN remote' = [remote EXCEPT ![call[r].rws] =
                            [i \in DOMAIN @ \cup {item.id} |->
                               IF i = item.id THEN PushBody(item) ELSE @[i]]]
       ELSE UNCHANGED remote
  /\ UNCHANGED <<now, workspaces, context, links, mounts, remoteWs, remoteLinks, writes, stopped, sessions, starting, adding>>

\* ------------------------------------------------------ specification
\* what a remote call can do: answer, answer with the offline sentinel, throw
Outcomes == {"ok", "offline", "throw"}

\* one replica, A, whose store holds no links, an unreliable remote, and one
\* write to the remote by a client whose clock may be ahead
Next ==
  \/ Tick(MaxPushTime)
  \/ AddContext("A", Outcomes, MaxItems, {NotePayload})
  \/ SoftDelete("A")
  \/ RemoteWrite(MaxSkewWrites, Payloads \ {NotePayload})
  \/ SyncPush("A")
  \/ SyncBoth("A")
  \/ SyncPull("A")
  \/ PushCreateWorkspace("A", Outcomes)
  \/ PushItem("A", Outcomes)
  \/ PullFetch("A", Outcomes)
  \/ Return("A")

Spec == Init /\ [][Next]_vars

\* one replica, A, with links between its items
LinkNext ==
  \/ Tick(MaxPushTime)
  \/ AddContext("A", Outcomes, MaxLinkedItems, {NotePayload})
  \/ LinkAdd("A", Outcomes, MaxLinks)
  \/ SyncPush("A")
  \/ SyncBoth("A")
  \/ SyncPull("A")
  \/ PushCreateWorkspace("A", Outcomes)
  \/ PushItem("A", Outcomes)
  \/ PushLink("A", Outcomes)
  \/ PullFetch("A", Outcomes)
  \/ Return("A")

LinkSpec == Init /\ [][LinkNext]_vars

\* one replica, A, pulling from a remote that other clients write to
PullNext ==
  \/ Tick(MaxTime)
  \/ AddContext("A", Outcomes, MaxPulledItems, {NotePayload})
  \/ SoftDelete("A")
  \/ RemoteWrite(MaxRemoteWrites, WirePayloads)
  \/ SyncPull("A")
  \/ PullFetch("A", Outcomes)
  \/ Return("A")

PullSpec == Init /\ [][PullNext]_vars

\* two replicas, A and B, bound to the same remote workspace; the remote is
\* reachable for every sync, and local edits stop at some point
ConvInit ==
  /\ now = 1
  /\ workspaces = [r \in Replicas |-> (WsId :> WorkspaceRow(<<"workspace:", 1>>, 1))]
  /\ remoteWs = 1
  /\ remote = (1 :> <<>>)
  /\ context = [r \in Replicas |-> <<>>]
  /\ links = [r \in Replicas |-> {}]
  /\ mounts = [r \in Replicas |-> {}]
  /\ sessions = [r \in Replicas |-> {}]
  /\ starting = [r \in Replicas |-> 0]
  /\ adding = [r \in Replicas |-> NoAdd]
  /\ remoteLinks = {}
  /\ call = [r \in Replicas |-> IdleCall]
  /\ writes = 0
  /\ stopped = FALSE

StopEdits ==
  /\ ~stopped
  /\ stopped' = TRUE
  /\ UNCHANGED <<now, workspaces, context, links, remoteWs, remote, remoteLinks, call, writes, mounts, sessions, starting, adding>>

ConvNext ==
  \/ Tick(MaxTime)
  \/ StopEdits
  \/ \E r \in Replicas : AddContext(r, Outcomes, MaxReplicaItems, {NotePayload})
  \/ \E r \in Replicas : SyncBound(r)
  \/ \E r \in Replicas : PushItem(r, {"ok"})
  \/ \E r \in Replicas : PullFetch(r, {"ok"})
  \/ \E r \in Replicas : Return(r)

ConvSpec == ConvInit /\ [][ConvNext]_vars

\* the same two replicas when each keeps running `substrate sync` and every
\* started call runs to its end: the remote answers every request
ConvFairness ==
  /\ WF_vars(StopEdits)
  /\ \A r \in Replicas :
       /\ WF_vars(SyncBound(r))
       /\ WF_vars(PushItem(r, {"ok"}))
       /\ WF_vars(PullFetch(r, {"ok"}))
       /\ WF_vars(Return(r))

ConvLiveSpec == ConvSpec /\ ConvFairness

\* pushes of a store that holds several links
LinkPushNext ==
  \/ Tick(MaxPushTime)
  \/ AddContext("A", Outcomes, MaxLinkedItems, {NotePayload})
  \/ LinkAdd("A", {"offline"}, MaxPushedLinks)
  \/ SyncPush("A")
  \/ PushCreateWorkspace("A", {"ok"})
  \/ PushItem("A", Outcomes)
  \/ PushLink("A", Outcomes)
  \/ Return("A")

LinkPushSpec == Init /\ [][LinkPushNext]_vars

\* push and bidirectional sync of one store whose process may be killed
\* between any two steps, and run again afterwards
ResumeNext ==
  \/ Tick(MaxPushTime)
  \/ AddContext("A", Outcomes, MaxResumeItems, {NotePayload})
  \/ SoftDelete("A")
  \/ RemoteWrite(MaxSkewWrites, Payloads \ {NotePayload})
  \/ SyncPush("A")
  \/ SyncBoth("A")
  \/ PushCreateWorkspace("A", Outcomes)
  \/ PushItem("A", Outcomes)
  \/ PullFetch("A", Outcomes)
  \/ Return("A")
  \/ Interrupt("A")

ResumeSpec == Init /\ [][ResumeNext]_vars

\* one store before `init`
StoreInit ==
  /\ now = 1
  /\ workspaces = [r \in Replicas |-> <<>>]
  /\ remoteWs = 0
  /\ remote = <<>>
  /\ context = [r \in Replicas |-> <<>>]
  /\ links = [r \in Replicas |-> {}]
  /\ mounts = [r \in Replicas |-> {}]
  /\ sessions = [r \in Replicas |-> {}]
  /\ starting = [r \in Replicas |-> 0]
  /\ adding = [r \in Replicas |-> NoAdd]
  /\ remoteLinks = {}
  /\ call = [r \in Replicas |-> IdleCall]
  /\ writes = 0
  /\ stopped = FALSE

\* every local command that writes the store, from the CLI and from MCP
StoreNext ==
  \/ Tick(MaxPushTime)
  \/ InitWorkspace("A", Outcomes)
  \/ AddContext("A", Outcomes, MaxStoreItems, {NotePayload})
  \/ HandleAdd("A", MaxStoreItems, {NotePayload})
  \/ LinkAdd("A", Outcomes, MaxStoreLinks)
  \/ HandleLink("A", MaxStoreLinks, FullArgs)
  \/ MountAdd("A", Outcomes, Paths)
  \/ SoftDelete("A")
  \/ Unpin("A")

StoreSpec == StoreInit /\ [][StoreNext]_vars

\* the context rows of one store under every command that writes them: the
\* add commands, soft delete, project unpin and bidirectional sync against a
\* remote that other clients write too
RowNext ==
  \/ Tick(MaxPushTime)
  \/ InitWorkspace("A", Outcomes)
  \/ AddContext("A", Outcomes, MaxStoreItems, {NotePayload})
  \/ HandleAdd("A", MaxStoreItems, {NotePayload})
  \/ SoftDelete("A")
  \/ Unpin("A")
  \/ RemoteWrite(MaxSkewWrites, Payloads \ {NotePayload})
  \/ SyncBoth("A")
  \/ PushCreateWorkspace("A", Outcomes)
  \/ PushItem("A", Outcomes)
  \/ PullFetch("A", Outcomes)
  \/ Return("A")

RowSpec == StoreInit /\ [][RowNext]_vars

\* ------------------------------------------------------ similarity guard (lib/similarity)
\* the contents the add commands are given
GuardTexts ==
  { "API must return JSON", "All API responses must be JSON", " api  must return JSON ",
    "API must return JSON always", "Use PostgreSQL" }

\* a content as the sequence of its characters
Spelling ==
  ("API must return JSON" :> <<"A", "P", "I", " ", "m", "u", "s", "t", " ", "r", "e", "t", "u", "r", "n", " ", "J", "S", "O", "N">>) @@
  ("All API responses must be JSON" :> <<"A", "l", "l", " ", "A", "P", "I", " ", "r", "e", "s", "p", "o", "n", "s", "e", "s", " ", "m", "u", "s", "t", " ", "b", "e", " ", "J", "S", "O", "N">>) @@
  (" api  must return JSON " :> <<" ", "a", "p", "i", " ", " ", "m", "u", "s", "t", " ", "r", "e", "t", "u", "r", "n", " ", "J", "S", "O", "N", " ">>) @@
  ("API must return JSON always" :> <<"A", "P", "I", " ", "m", "u", "s", "t", " ", "r", "e", "t", "u", "r", "n", " ", "J", "S", "O", "N", " ", "a", "l", "w", "a", "y", "s">>) @@
  ("Use PostgreSQL" :> <<"U", "s", "e", " ", "P", "o", "s", "t", "g", "r", "e", "S", "Q", "L">>)

UpperCase == {"A", "P", "I", "J", "S", "O", "N", "U", "Q", "L"}
LowerOf ==
  ("A" :> "a") @@ ("P" :> "p") @@ ("I" :> "i") @@ ("J" :> "j") @@ ("S" :> "s") @@
  ("O" :> "o") @@ ("N" :> "n") @@ ("U" :> "u") @@ ("Q" :> "q") @@ ("L" :> "l")

\* String.prototype.toLowerCase
ToLowerCase(t) == [i \in 1..Len(t) |-> IF t[i] \in UpperCase THEN LowerOf[t[i]] ELSE t[i]]

IsSpace(ch) == ch = " "

\* String.prototype.trim
RECURSIVE TrimStart(_)
TrimStart(t) == IF t # <<>> /\ IsSpace(Head(t)) THEN TrimStart(Tail(t)) ELSE t

RECURSIVE TrimEnd(_)
TrimEnd(t) ==
  IF t # <<>> /\ IsSpace(t[Len(t)]) THEN TrimEnd(SubSeq(t, 1, Len(t) - 1)) ELSE t

Trim(t) == TrimEnd(TrimStart(t))

\* replace(/\s+/g, ' '): every run of white space becomes one space
RECURSIVE CollapseSpaces(_)
CollapseSpaces(t) ==
  IF t = <<>> THEN <<>>
  ELSE IF IsSpace(Head(t))
       THEN <<" ">> \o CollapseSpaces(TrimStart(t))
       ELSE <<Head(t)>> \o CollapseSpaces(Tail(t))

\* normalize: text.toLowerCase().trim().replace(/\s+/g, ' ')
Normalize(t) == CollapseSpaces(Trim(ToLowerCase(t)))

\* split(/\s+/): the pieces between runs of white space
RECURSIVE SplitSpaces(_, _)
SplitSpaces(t, piece) ==
  IF t = <<>> THEN <<piece>>
  ELSE IF IsSpace(Head(t))
       THEN <<piece>> \o SplitSpaces(TrimStart(t), <<>>)
       ELSE SplitSpaces(Tail(t), Append(piece, Head(t)))

\* getWords: the pieces of the normalized text longer than 2 characters
GetWords(t) ==
  LET pieces == SplitSpaces(Normalize(t), <<>>)
  IN { pieces[i] : i \in { j \in 1..Len(pieces) : Len(pieces[j]) > 2 } }

\* String.prototype.includes
Includes(t, part) ==
  \E i \in 1..(Len(t) - Len(part) + 1) : SubSeq(t, i, i + Len(part) - 1) = part

\* a score between 0 and 1 as a fraction
Ratio(n, d) == [num |-> n, den |-> d]

\* jaccardSimilarity: |intersection| / |union|, 0 for two empty sets
JaccardSimilarity(set1, set2) ==
  IF Cardinality(set1 \cup set2) = 0 THEN Ratio(0, 1)
  ELSE Ratio(Cardinality(set1 \cap set2), Cardinality(set1 \cup set2))

\* textSimilarity: exact match, then containment, then word overlap
TextSimilarity(text1, text2) ==
  LET norm1 == Normalize(text1)
      norm2 == Normalize(text2)
  IN IF norm1 = norm2 THEN Ratio(1, 1)
     ELSE IF Includes(norm1, norm2) \/ Includes(norm2, norm1)
     THEN LET shorter == IF Len(norm1) < Len(norm2) THEN norm1 ELSE norm2
              longer == IF Len(norm1) < Len(norm2) THEN norm2 ELSE norm1
          IN Ratio(Len(shorter), Len(longer))
     ELSE JaccardSimilarity(GetWords(text1), GetWords(text2))

\* Math.round(similarity * 100)
Percent(sim) == (200 * sim.num + sim.den) \div (2 * sim.den)

\* the threshold of checkDuplicate, 0.7 and 70 on the scale of 100
DuplicateThreshold == 70
AtLeastThreshold(sim) == 100 * sim.num >= DuplicateThreshold * sim.den

\* LIMIT 100 of findSimilar, scaled down to the size of the stores explored
GuardLimit == 1

\* faulty variant: the query does not filter deleted_at
GuardWindowsWithDeleted(ctx, w) ==
  LET live == { x \in Rows(ctx) : x.workspace_id = w }
      size == IF Cardinality(live) < GuardLimit THEN Cardinality(live) ELSE GuardLimit
  IN { win \in SUBSET live :
         /\ Cardinality(win) = size
         /\ \A x \in win, y \in live \ win : x.created_at >= y.created_at }

\* SELECT ... WHERE workspace_id = ? AND deleted_at IS NULL ORDER BY created_at
\* DESC LIMIT: every set of rows the query may return (rows with the same
\* created_at come in either order)
GuardWindows(ctx, w) ==
  LET live == { x \in Rows(ctx) : x.workspace_id = w /\ x.deleted_at = NULL }
      size == IF Cardinality(live) < GuardLimit THEN Cardinality(live) ELSE GuardLimit
  IN { win \in SUBSET live :
         /\ Cardinality(win) = size
         /\ \A x \in win, y \in live \ win : x.created_at >= y.created_at }

\* textSimilarity of every two contents, computed once
SimilarityOf ==
  [a \in GuardTexts |-> [b \in GuardTexts |-> TextSimilarity(Spelling[a], Spelling[b])]]

\* findSimilar over the rows the query returned: the items at or above the
\* threshold, each with its percentage
FindSimilar(win, content) ==
  { [id |-> x.id, type |-> x.type, content |-> x.content,
     similarity |-> Percent(SimilarityOf[content][x.content])] :
    x \in { y \in win : AtLeastThreshold(SimilarityOf[content][y.content]) } }

\* checkDuplicate: the most similar item when its percentage is at least 70,
\* else null; the set holds every item the sort may put first
CheckDuplicate(win, content) ==
  LET similar == FindSimilar(win, content)
  IN { d \in similar :
         /\ \A e \in similar : e.similarity <= d.similarity
         /\ d.similarity >= DuplicateThreshold }

\* the payload of an add of the given content with the default type and scope
TextPayload(content) == [NotePayload EXCEPT !.content = content]

GuardPayloads == { TextPayload(content) : content \in GuardTexts }

\* faulty variant: the duplicate check is not made
ContextAddUnchecked(r, content, force, outs, cap) ==
  /\ force \in BOOLEAN
  /\ AddContext(r, outs, cap, {TextPayload(content)})

\* context add of one content: unless --force is given, checkDuplicate on the
\* rows the query returns must find nothing, else the command exits with 1
\* before the INSERT; past the check it writes as the add shorthand does
ContextAddOf(r, content, force, outs, cap) ==
  /\ force \/ \E win \in GuardWindows(context[r], WsId) : CheckDuplicate(win, content) = {}
  /\ AddContext(r, outs, cap, {TextPayload(content)})

ContextAdd(r, outs, cap, texts, forces) ==
  \E content \in texts, force \in forces : ContextAddOf(r, content, force, outs, cap)

\* context add with and without --force on a store with soft deletes
GuardNext ==
  \/ Tick(MaxPushTime)
  \/ ContextAdd("A", {"offline"}, MaxItems, GuardTexts, BOOLEAN)
  \/ SoftDelete("A")

GuardSpec == Init /\ [][GuardNext]_vars

\* context add without --force only
UnforcedNext ==
  \/ Tick(MaxPushTime)
  \/ ContextAdd("A", {"offline"}, MaxItems, GuardTexts, {FALSE})
  \/ SoftDelete("A")

UnforcedSpec == Init /\ [][UnforcedNext]_vars

\* the three add entry points, none of them forced
AddEntryNext ==
  \/ Tick(MaxPushTime)
  \/ ContextAdd("A", {"offline"}, MaxItems, GuardTexts, {FALSE})
  \/ AddContext("A", {"offline"}, MaxItems, GuardPayloads)
  \/ HandleAdd("A", MaxItems, GuardPayloads)
  \/ SoftDelete("A")

AddEntrySpec == Init /\ [][AddEntryNext]_vars

\* ------------------------------------------------------ related (local graph walk)
MaxGraphLinks == 3

\* --depth as parseInt gives it
DepthArgs == -1..3

\* Math.min(2, Math.max(1, parseInt(options.depth) || 1))
DepthOf(d) ==
  LET parsed == IF d = 0 THEN 1 ELSE d
      atLeast == IF parsed < 1 THEN 1 ELSE parsed
  IN IF atLeast > 2 THEN 2 ELSE atLeast

\* FROM links l JOIN context cf ON l.from_id = cf.id JOIN context ct ON l.to_id = ct.id
JoinedLinks(ctx, lks) ==
  { l \in lks : l.from_id \in DOMAIN ctx /\ l.to_id \in DOMAIN ctx }

\* the rows of a query on links, in the order of the table
RECURSIVE LinksInOrder(_)
LinksInOrder(S) ==
  IF S = {} THEN <<>>
  ELSE LET first == CHOOSE l \in S : \A k \in S : l.id <= k.id
       IN <<first>> \o LinksInOrder(S \ {first})

\* WHERE l.from_id = ? OR l.to_id = ?
FirstLinks(ctx, lks, item) ==
  LinksInOrder({ l \in JoinedLinks(ctx, lks) : l.from_id = item \/ l.to_id = item })

\* WHERE (l.from_id = ? OR l.to_id = ?) AND l.from_id != seed AND l.to_id != seed
SecondLinks(ctx, lks, fullId, seed) ==
  LinksInOrder({ l \in JoinedLinks(ctx, lks) :
                   /\ l.from_id = fullId \/ l.to_id = fullId
                   /\ l.from_id # seed /\ l.to_id # seed })

\* links.forEach: the item at the other end of each link is reported, with the
\* hop count, unless it has been seen; id is what the report prints, item is
\* the row whose type and content it carries
RECURSIVE VisitLinks(_, _, _, _)
VisitLinks(rows, pivot, hops, acc) ==
  IF rows = <<>> THEN acc
  ELSE LET l == Head(rows)
           isOutbound == l.from_id = pivot
           otherId == IF isOutbound THEN l.to_id ELSE l.from_id
       IN IF otherId \notin acc.seen
          THEN VisitLinks(Tail(rows), pivot, hops,
                 [seen |-> acc.seen \cup {otherId},
                  related |-> Append(acc.related,
                    [id |-> ShortId(otherId), item |-> otherId, hops |-> hops,
                     direction |-> IF isOutbound THEN "outbound" ELSE "inbound",
                     relation |-> l.relation])])
          ELSE VisitLinks(Tail(rows), pivot, hops, acc)

\* SELECT id FROM context WHERE id LIKE 'short%' with .get(): every way the
\* query may answer for each short id, 0 when no row matches
Resolutions(ctx) ==
  { f \in [{ ShortId(i) : i \in Ids } -> Ids \cup {NULL}] :
      \A sh \in DOMAIN f :
        LET matches == { i \in DOMAIN ctx : ShortId(i) = sh }
        IN IF matches = {} THEN f[sh] = NULL ELSE f[sh] \in matches }

\* for (const rel of [...related]): the links of each reported hop-1 item,
\* found again by the short id of the report
RECURSIVE VisitRelated(_, _, _, _, _, _)
VisitRelated(rels, ctx, lks, seed, resolve, acc) ==
  IF rels = <<>> THEN acc
  ELSE LET fullId == resolve[Head(rels).id]
       IN IF fullId = NULL
          THEN VisitRelated(Tail(rels), ctx, lks, seed, resolve, acc)
          ELSE VisitRelated(Tail(rels), ctx, lks, seed, resolve,
                 VisitLinks(SecondLinks(ctx, lks, fullId, seed), fullId, 2, acc))

\* related --local: the list the command reports for the seed
Related(ctx, lks, seed, d, resolve) ==
  LET depth == DepthOf(d)
      first == VisitLinks(FirstLinks(ctx, lks, seed), seed, 1,
                          [seen |-> {seed}, related |-> <<>>])
  IN IF depth >= 2 /\ Len(first.related) > 0
     THEN VisitRelated(first.related, ctx, lks, seed, resolve, first).related
     ELSE first.related

\* a store of items and links between them, built by add and link add
GraphNext ==
  \/ AddContext("A", {"offline"}, MaxItems, {NotePayload})
  \/ LinkAdd("A", {"offline"}, MaxGraphLinks)

GraphSpec == Init /\ [][GraphNext]_vars

\* ------------------------------------------------------ workspace resolver
\* the directories mounted, and the paths commands are run from
MountPaths == { "/repo", "/repo/service", "/repo/service/src", "/repo2", "/other" }
QueryPaths == { "/repo/service/src", "/repo/service/src/lib", "/repo2/src", "/repo", "/tmp" }

\* a path as the sequence of its characters
PathChars ==
  ("/repo" :> <<"/", "r", "e", "p", "o">>) @@
  ("/repo/service" :> <<"/", "r", "e", "p", "o", "/", "s", "e", "r", "v", "i", "c", "e">>) @@
  ("/repo/service/src" :> <<"/", "r", "e", "p", "o", "/", "s", "e", "r", "v", "i", "c", "e", "/", "s", "r", "c">>) @@
  ("/repo2" :> <<"/", "r", "e", "p", "o", "2">>) @@
  ("/other" :> <<"/", "o", "t", "h", "e", "r">>) @@
  ("/repo/service/src/lib" :> <<"/", "r", "e", "p", "o", "/", "s", "e", "r", "v", "i", "c", "e", "/", "s", "r", "c", "/", "l", "i", "b">>) @@
  ("/repo2/src" :> <<"/", "r", "e", "p", "o", "2", "/", "s", "r", "c">>) @@
  ("/tmp" :> <<"/", "t", "m", "p">>)

\* String.prototype.startsWith
StartsWith(t, prefix) ==
  Len(prefix) <= Len(t) /\ SubSeq(t, 1, Len(prefix)) = prefix

\* faulty variant: the mounts come in the order of insertion
MountOrdersByInsertion(mnts) ==
  LET n == Cardinality(mnts)
  IN { ord \in [1..n -> mnts] :
         /\ \A i \in 1..n, j \in 1..n : ord[i] = ord[j] => i = j
         /\ \A i \in 1..n, j \in 1..n : i < j => ord[i].id < ord[j].id }

\* SELECT * FROM mounts ORDER BY length(path) DESC: every order the query may
\* return the rows in (paths of the same length come in either order)
MountOrders(mnts) ==
  LET n == Cardinality(mnts)
  IN { ord \in [1..n -> mnts] :
         /\ \A i \in 1..n, j \in 1..n : ord[i] = ord[j] => i = j
         /\ \A i \in 1..n, j \in 1..n :
              i < j => Len(PathChars[ord[i].path]) >= Len(PathChars[ord[j].path]) }

NoMount == [id |-> 0]

\* the loop of findWorkspaceForCwd / findWorkspaceForPath over the rows: the
\* first mount whose path the target starts with, with its workspace
FirstMatch(ord, wss, targetPath) ==
  LET hits == { i \in 1..Len(ord) : StartsWith(PathChars[targetPath], PathChars[ord[i].path]) }
  IN IF hits = {} THEN [mount |-> NoMount, workspace |-> NULL]
     ELSE LET mount == ord[Min(hits)]
          IN [mount |-> mount,
              workspace |-> IF mount.workspace_id \in DOMAIN wss
                            THEN mount.workspace_id ELSE NULL]

\* findWorkspaceForPath: every answer the resolver may give
FindWorkspaceForPath(mnts, wss, targetPath) ==
  { FirstMatch(ord, wss, targetPath) : ord \in MountOrders(mnts) }

\* mount add of nested and unrelated directories, in every order
MountNext ==
  \/ MountAdd("A", {"offline"}, MountPaths)

MountSpec == Init /\ [][MountNext]_vars

\* ------------------------------------------------------ commands given identifiers
LinkAddArgs(r, outs, cap, args) ==
  \E from \in args, to \in args : LinkAddOf(r, from, to, outs, cap)

\* link add and the MCP link tool, given whole ids or their first 8 characters
RefNext ==
  \/ AddContext("A", {"offline"}, MaxItems, {NotePayload})
  \/ LinkAddArgs("A", {"offline"}, MaxGraphLinks, IdArgs)
  \/ HandleLink("A", MaxGraphLinks, IdArgs)

RefSpec == Init /\ [][RefNext]_vars

\* ------------------------------------------------------ sessions
MaxSessions == 3
MaxStarting == 2

Active(rows, w) == { s \in rows : s.workspace_id = w /\ s.ended_at = NULL }

\* the same query ordered oldest first
GetActiveSessionOldestFirst(rows, w) ==
  { s \in Active(rows, w) : \A o \in Active(rows, w) : s.started_at <= o.started_at }

\* getActiveSession: ... WHERE workspace_id = ? AND ended_at IS NULL
\* ORDER BY started_at DESC LIMIT 1; every row .get() may return (the order
\* of rows with equal started_at is not fixed), the empty set for undefined
GetActiveSession(rows, w) ==
  { s \in Active(rows, w) : \A o \in Active(rows, w) : o.started_at <= s.started_at }

\* INSERT INTO sessions (id, workspace_id, name, started_at): a fresh id, ended_at NULL
InsertSession(rows, w, t) ==
  rows \cup {[id |-> 1 + Max({0} \cup {s.id : s \in rows}), workspace_id |-> w,
              started_at |-> t, ended_at |-> NULL]}

\* session start with its check of the active session left out
SessionStartUnchecked(r, cap) ==
  /\ WsId \in DOMAIN workspaces[r]
  /\ Cardinality(sessions[r]) < cap
  /\ sessions' = [sessions EXCEPT ![r] = InsertSession(@, WsId, now)]
  /\ UNCHANGED <<now, workspaces, context, links, mounts, remoteWs, remote, remoteLinks, call, writes, stopped, starting, adding>>

\* session start, run with no other command in between: exits 1 without a
\* workspace or with an active session, else inserts the new session
SessionStart(r, cap) ==
  /\ WsId \in DOMAIN workspaces[r]
  /\ GetActiveSession(sessions[r], WsId) = {}
  /\ Cardinality(sessions[r]) < cap
  /\ sessions' = [sessions EXCEPT ![r] = InsertSession(@, WsId, now)]
  /\ UNCHANGED <<now, workspaces, context, links, mounts, remoteWs, remote, remoteLinks, call, writes, stopped, starting, adding>>

\* session start of a process that runs beside others, up to its check: it
\* has found no active session and has not inserted yet
SessionStartCheck(r, cap) ==
  /\ WsId \in DOMAIN workspaces[r]
  /\ GetActiveSession(sessions[r], WsId) = {}
  /\ starting[r] < MaxStarting
  /\ Cardinality(sessions[r]) + starting[r] < cap
  /\ starting' = [starting EXCEPT ![r] = @ + 1]
  /\ UNCHANGED <<now, workspaces, context, links, mounts, remoteWs, remote, remoteLinks, call, writes, stopped, sessions, adding>>

\* the insert of a session start that has passed its check
SessionStartInsert(r) ==
  /\ starting[r] > 0
  /\ sessions' = [sessions EXCEPT ![r] = InsertSession(@, WsId, now)]
  /\ starting' = [starting EXCEPT ![r] = @ - 1]
  /\ UNCHANGED <<now, workspaces, context, links, mounts, remoteWs, remote, remoteLinks, call, writes, stopped, adding>>

\* session end: exits 1 without a workspace or an active session, else
\* UPDATE sessions SET ended_at = ? WHERE id = ? on the session found
SessionEnd(r) ==
  /\ WsId \in DOMAIN workspaces[r]
  /\ \E active \in GetActiveSession(sessions[r], WsId) :
       sessions' = [sessions EXCEPT ![r] =
                      { IF s.id = active.id THEN [s EXCEPT !.ended_at = now] ELSE s : s \in @ }]
  /\ UNCHANGED <<now, workspaces, context, links, mounts, remoteWs, remote, remoteLinks, call, writes, stopped, starting, adding>>

\* session start and session end, one command at a time
SessionNext ==
  \/ Tick(MaxTime)
  \/ SessionStart("A", MaxSessions)
  \/ SessionEnd("A")

SessionSpec == Init /\ [][SessionNext]_vars

\* session start commands of several processes interleaved, and session end
OverlapNext ==
  \/ Tick(MaxTime)
  \/ SessionStartCheck("A", MaxSessions)
  \/ SessionStartInsert("A")
  \/ SessionEnd("A")

OverlapSpec == Init /\ [][OverlapNext]_vars

\* ------------------------------------------------------ context add beside a sync
MaxInFlightItems == 2

\* context add of a second process up to its await: the INSERT, and the
\* request api.addContext reaches the server, which stores the item under an
\* id of its own; the process keeps the local id, its timestamp and the reply
ContextAddSend(r, outs, cap, payloads) ==
  /\ adding[r] = NoAdd
  /\ WsId \in DOMAIN workspaces[r]
  /\ FreshIds # {}
  /\ Cardinality(DOMAIN context[r]) < cap
  /\ \E p \in payloads, o \in outs :
       LET id == Min(FreshIds)
           w == workspaces[r][WsId]
           row == [id |-> id, rowid |-> NextRowid(context[r]), workspace_id |-> WsId,
                   type |-> p.type, content |-> p.content, tags |-> p.tags,
                   scope |-> p.scope, meta |-> "{}", remote_id |-> NULL,
                   created_at |-> now, updated_at |-> now,
                   synced_at |-> NULL, deleted_at |-> NULL]
       IN /\ context' = [context EXCEPT ![r] = @ @@ (id :> row)]
          /\ IF o = "ok" /\ IsBound(w) /\ FreshIds \ {id} # {}
             THEN LET rid == Min(FreshIds \ {id})
                      k == StripWorkspacePrefix(w.remote_id)
                  IN /\ remote' = [remote EXCEPT ![k] =
                          @ @@ (rid :> RemoteItem(rid, p.type, p.content, p.tags, p.scope, "{}", now, now))]
                     /\ adding' = [adding EXCEPT ![r] = [id |-> id, reply |-> rid, at |-> now]]
             ELSE /\ adding' = [adding EXCEPT ![r] = [id |-> id, reply |-> NULL, at |-> now]]
                  /\ UNCHANGED remote
  /\ UNCHANGED <<now, workspaces, links, mounts, remoteWs, remoteLinks, call, writes, stopped, sessions, starting>>

\* the reply of api.addContext arrives: with result.context.id,
\* UPDATE context SET remote_id = ?, synced_at = ? WHERE id = ?
ContextAddReply(r) ==
  /\ adding[r] # NoAdd
  /\ LET a == adding[r]
     IN context' = IF a.reply # NULL /\ a.id \in DOMAIN context[r]
                   THEN [context EXCEPT ![r][a.id].remote_id = a.reply,
                                        ![r][a.id].synced_at = a.at]
                   ELSE context
  /\ adding' = [adding EXCEPT ![r] = NoAdd]
  /\ UNCHANGED <<now, workspaces, links, mounts, remoteWs, remote, remoteLinks, call, writes, stopped, sessions, starting>>

\* context add in one process while push and pull run in another, on one store
InFlightNext ==
  \/ Tick(MaxPushTime)
  \/ ContextAddSend("A", Outcomes, MaxInFlightItems, {NotePayload})
  \/ ContextAddReply("A")
  \/ SyncPush("A")
  \/ SyncPull("A")
  \/ PushCreateWorkspace("A", Outcomes)
  \/ PushItem("A", Outcomes)
  \/ PullFetch("A", Outcomes)
  \/ Return("A")

InFlightSpec == Init /\ [][InFlightNext]_vars

\* ------------------------------------------------------ two workspaces in one store
\* the workspace a second directory is pinned to
OtherWs == "w2"

\* project pin <id> in another directory, for the project of a remote
\* workspace: no local workspace has that project_id, so the remote
\* workspace is fetched and a local workspace bound to it is inserted; when
\* the remote cannot be reached a placeholder without remote_id is inserted
ProjectPin(r, outs) ==
  /\ ~stopped
  /\ call[r].pc = "idle"
  /\ OtherWs \notin DOMAIN workspaces[r]
  /\ \E o \in outs :
       IF o = "ok"
       THEN \E k \in DOMAIN remote :
              workspaces' = [workspaces EXCEPT ![r] = @ @@
                (OtherWs :> [WorkspaceRow(<<"workspace:", k>>, now) EXCEPT !.id = OtherWs])]
       ELSE workspaces' = [workspaces EXCEPT ![r] = @ @@
              (OtherWs :> [WorkspaceRow(NoRemote, NULL) EXCEPT !.id = OtherWs, !.name = "pending-sync"])]
  /\ UNCHANGED <<now, context, links, mounts, remoteWs, remote, remoteLinks, call, writes, stopped, sessions, starting, adding>>

\* one store with two directories: context add in the first, pulls of both
PinNext ==
  \/ Tick(MaxPushTime)
  \/ AddContext("A", {"ok", "offline"}, MaxPulledItems, {NotePayload})
  \/ RemoteWrite(MaxRemoteWrites, Payloads \ {NotePayload})
  \/ ProjectPin("A", {"ok", "throw"})
  \/ PullBegin("A", {WsId, OtherWs})
  \/ PullFetch("A", Outcomes)
  \/ Return("A")

PinSpec == Init /\ [][PinNext]_vars

\* ------------------------------------------------------ two pushes of one store
MaxOverlapWs == 2
MaxOverlapItems == 2

\* the processes A and B both run `sync push` on the store of A
OverlapPushNext ==
  \/ Tick(MaxPushTime)
  \/ AddContext("A", {"offline"}, MaxOverlapItems, {NotePayload})
  \/ \E p \in Replicas : PushBeginAt(p, "A", "push", {WsId})
  \/ \E p \in Replicas : PushCreateWorkspaceAt(p, "A", Outcomes, MaxOverlapWs)
  \/ \E p \in Replicas : PushItemAt(p, "A", Outcomes)
  \/ \E p \in Replicas : Return(p)

OverlapPushSpec == Init /\ [][OverlapPushNext]_vars

TypeOK ==
  /\ now \in Times
  /\ \A r \in Replicas : DOMAIN context[r] \subseteq Ids

\* ------------------------------------------------------ properties
NoPullYet(c) == \A i \in 1..Len(c.log) : c.log[i].call # "syncPull"

PushEntries(c) == { i \in 1..Len(c.log) : c.log[i].call = "syncPush" }

Attempted(c) == { c.log[i].id : i \in PushEntries(c) }

\* pushChanges has returned a result without a top-level error
PushOver(c) ==
  /\ c.op \in {"push", "sync"}
  /\ c.push.error = "none"
  /\ c.pc \in {"fetch", "done"}

\* C1: in one push, an item whose remote call succeeded carries the remote_id and
\* the synced_at of that reply, an item whose call failed keeps the remote_id and
\* synced_at it had before the call, and every selected item is attempted whatever
\* happened to the ones before it.
C1_PartialFailureIsolation ==
  \A r \in Replicas :
    LET c == call[r]
    IN (c.op \in {"push", "sync"} /\ NoPullYet(c)) =>
         /\ \A i \in PushEntries(c) :
              LET e == c.log[i]
              IN IF e.out = "ok"
                 THEN /\ context[r][e.id].remote_id = e.id
                      /\ context[r][e.id].synced_at = e.at
                 ELSE /\ context[r][e.id].remote_id = c.pre[e.id].remote_id
                      /\ context[r][e.id].synced_at = c.pre[e.id].synced_at
         /\ PushOver(c) =>
              /\ Attempted(c) = { id \in DOMAIN c.pre : PendingPush(c.pre[id], c.ws) }
              /\ c.push.pushed = Cardinality({ i \in PushEntries(c) : c.log[i].out = "ok" })
              /\ c.push.failed = Cardinality({ i \in PushEntries(c) : c.log[i].out # "ok" })

\* C1 witness: a finished push whose three items went ok, failed, ok
C1_Witness ==
  \E r \in Replicas :
    LET c == call[r]
    IN /\ c.op = "push" /\ c.pc = "done"
       /\ \E i \in 1..Len(c.log) :
            /\ i + 2 <= Len(c.log)
            /\ \A j \in {i, i + 1, i + 2} : c.log[j].call = "syncPush"
            /\ c.log[i].out = "ok" /\ c.log[i + 1].out # "ok" /\ c.log[i + 2].out = "ok"
            /\ context[r][c.log[i + 1].id].synced_at = NULL
            /\ context[r][c.log[i + 2].id].synced_at # NULL

\* C6: a push on a workspace with no remote_id sends no item before the remote
\* workspace has been created and its id written to the workspace row, and when
\* every item is accepted every item that was pending has a remote_id at the end.
C6_UnboundPushBindsFirst ==
  \A r \in Replicas :
    LET c == call[r]
    IN (c.op \in {"push", "sync"} /\ c.ws \in DOMAIN workspaces[r] /\ c.preWs = NoRemote) =>
         /\ (c.pc = "item" \/ PushEntries(c) # {}) =>
              /\ c.log[1].call = "createWorkspace" /\ c.log[1].out = "ok"
              /\ IsBound(workspaces[r][c.ws])
              /\ StripWorkspacePrefix(workspaces[r][c.ws].remote_id) = c.rws
              /\ c.rws \in DOMAIN remote
         /\ (c.pc = "done" /\ c.push.error = "none"
               /\ \A i \in PushEntries(c) : c.log[i].out = "ok") =>
              \A id \in DOMAIN c.pre :
                PendingPush(c.pre[id], c.ws) => context[r][id].remote_id # NULL

\* C6 witness: a push that started unbound and pushed two items
C6_Witness ==
  \E r \in Replicas :
    LET c == call[r]
    IN /\ c.op = "push" /\ c.pc = "done" /\ c.preWs = NoRemote
       /\ c.push.pushed = 2 /\ c.push.failed = 0
       /\ \A id \in Attempted(c) : c.pre[id].remote_id = NULL /\ context[r][id].remote_id # NULL

\* C8 as stated: push attempts exactly the items of the workspace with
\* synced_at IS NULL OR updated_at > synced_at.
C8_PushSelectsAllUnsynced ==
  \A r \in Replicas :
    LET c == call[r]
    IN PushOver(c) =>
         Attempted(c) =
           { id \in DOMAIN c.pre :
               /\ c.pre[id].workspace_id = c.ws
               /\ (c.pre[id].synced_at = NULL \/ c.pre[id].updated_at > c.pre[id].synced_at) }

\* C8 amended: push attempts exactly the items of the workspace that are not
\* soft-deleted and have synced_at IS NULL OR updated_at > synced_at, and each item
\* whose call succeeded has a remote_id and the synced_at of that reply.
C8_PushSelectsLiveUnsynced ==
  \A r \in Replicas :
    LET c == call[r]
    IN PushOver(c) =>
         /\ Attempted(c) =
              { id \in DOMAIN c.pre :
                  /\ c.pre[id].workspace_id = c.ws
                  /\ c.pre[id].deleted_at = NULL
                  /\ (c.pre[id].synced_at = NULL \/ c.pre[id].updated_at > c.pre[id].synced_at) }
         /\ NoPullYet(c) =>
              \A i \in PushEntries(c) :
                c.log[i].out = "ok" =>
                  /\ context[r][c.log[i].id].remote_id # NULL
                  /\ context[r][c.log[i].id].synced_at = c.log[i].at

\* C8 witness: a push that sent an item modified since its last sync, and left
\* alone a synced item and an unsynced soft-deleted one
C8_Witness ==
  \E r \in Replicas :
    LET c == call[r]
    IN /\ PushOver(c) /\ c.pc = "done"
       /\ \E id \in Attempted(c) :
            /\ c.pre[id].synced_at # NULL
            /\ context[r][id].synced_at > c.pre[id].synced_at
       /\ \E id \in DOMAIN c.pre \ Attempted(c) :
            c.pre[id].deleted_at # NULL /\ c.pre[id].synced_at = NULL
       /\ \E id \in DOMAIN c.pre \ Attempted(c) :
            c.pre[id].deleted_at = NULL /\ c.pre[id].synced_at # NULL

\* C10: a push or pull on a bound workspace whose every remote call met the
\* offline sentinel counts nothing as pushed, pulled or updated, changes no row,
\* and returns no top-level error.
C10_OfflineIsZeroProgress ==
  \A r \in Replicas :
    LET c == call[r]
    IN (c.pc = "done" /\ c.preWs # NoRemote /\ c.log # <<>>
          /\ \A i \in 1..Len(c.log) : c.log[i].out = "offline") =>
         /\ c.push.pushed = 0 /\ c.pull.pulled = 0 /\ c.pull.updated = 0
         /\ context[r] = c.pre
         /\ c.push.error = "none"
         /\ c.pull.error = "none"

LinkEntries(c) == { i \in 1..Len(c.log) : c.log[i].call = "linkContext" }

\* C5: in one syncWorkspace call the pull phase starts only when the push phase
\* is over: once pullChanges has begun, no item and no link is left to push, the
\* workspace is bound, every selected item has been attempted, and every remote
\* call of the push phase comes before the fetch in the order of calls.
C5_PushThenPull ==
  \A r \in Replicas :
    LET c == call[r]
    IN (c.op = "sync" /\ c.pull.ran) =>
         /\ c.items = <<>> /\ c.lnks = <<>>
         /\ c.push.error = "none"
         /\ IsBound(workspaces[r][c.ws])
         /\ Attempted(c) = { id \in DOMAIN c.pre : PendingPush(c.pre[id], c.ws) }
         /\ c.push.pushed + c.push.failed = Cardinality(Attempted(c))
         /\ \A i, j \in 1..Len(c.log) :
              (c.log[i].call = "syncPull" /\ c.log[j].call # "syncPull") => j < i

\* C5 witness: a sync that pushed an item and a link and then pulled
C5_Witness ==
  \E r \in Replicas :
    LET c == call[r]
    IN /\ c.op = "sync" /\ c.pc = "done"
       /\ PushEntries(c) # {} /\ LinkEntries(c) # {}
       /\ c.log[Len(c.log)].call = "syncPull" /\ c.log[Len(c.log)].out = "ok"

\* C7: when creating the remote workspace fails (a throw or the offline
\* sentinel), the push stops there: no item and no link is sent, no row of the
\* store changes, the workspace stays unbound, no pull follows, and the result
\* is an error.
C7_CreateFailureAborts ==
  \A r \in Replicas :
    LET c == call[r]
    IN (c.log # <<>> /\ c.log[1].call = "createWorkspace" /\ c.log[1].out # "ok") =>
         /\ Len(c.log) = 1
         /\ c.pc = "done"
         /\ c.push.error # "none"
         /\ c.push.pushed = 0 /\ c.push.failed = 0
         /\ ~c.pull.ran
         /\ context[r] = c.pre
         /\ ~IsBound(workspaces[r][c.ws])
         /\ remoteWs = 0

\* C7 witness: the creation failed offline while an item and a link were waiting
C7_Witness ==
  \E r \in Replicas :
    LET c == call[r]
    IN /\ c.pc = "done" /\ c.log # <<>>
       /\ c.log[1].call = "createWorkspace" /\ c.log[1].out = "offline"
       /\ \E id \in DOMAIN context[r] : PendingPush(context[r][id], c.ws)
       /\ SelectLinks(context[r], links[r], c.ws) # {}

\* pullChanges fetched a snapshot and ran its loop over it
PullApplied(c) ==
  /\ c.pc = "done"
  /\ c.log # <<>>
  /\ c.log[Len(c.log)].call = "syncPull"
  /\ c.log[Len(c.log)].out = "ok"

\* the fetched items that match the local row x, by id or by remote_id
MatchesOf(c, x) ==
  { c.snapshot[i] : i \in { j \in 1..Len(c.snapshot) :
      c.snapshot[j].id = x.id \/ c.snapshot[j].id = x.remote_id } }

\* C2: a local row matched by a fetched item is overwritten by the pull exactly
\* when the remote updated_at is greater than the local one; when it is equal or
\* smaller every field of the row, synced_at included, is what it was.
C2_LastWriteWins ==
  \A r \in Replicas :
    LET c == call[r]
    IN PullApplied(c) =>
         \A id \in DOMAIN c.prePull :
           LET x == c.prePull[id]
               y == context[r][id]
               M == MatchesOf(c, x)
           IN M # {} =>
                IF \E m \in M : m.updated_at > x.updated_at
                THEN \E m \in M :
                       /\ m.updated_at > x.updated_at
                       /\ y.updated_at = m.updated_at
                       /\ y.type = m.type /\ y.content = m.content
                       /\ y.synced_at = c.log[Len(c.log)].at
                ELSE y = x

\* C2 witness: a tie, where the remote copy has other content and the same
\* updated_at, left the local row as it was
C2_Witness ==
  \E r \in Replicas :
    LET c == call[r]
    IN /\ PullApplied(c)
       /\ \E id \in DOMAIN c.prePull :
            \E m \in MatchesOf(c, c.prePull[id]) :
              /\ m.updated_at = c.prePull[id].updated_at
              /\ m.content # c.prePull[id].content
              /\ context[r][id] = c.prePull[id]
              /\ c.pull.skipped >= 1

\* C3: pulling again the snapshot a pull has just applied changes nothing: the
\* store after the second pull is the store after the first, and the second pull
\* counts no insert and no update, whenever it runs.
C3_PullIdempotent ==
  \A r \in Replicas :
    LET c == call[r]
    IN PullApplied(c) =>
         \A t \in now..MaxTime :
           LET again == ApplyPull(PullStart(context[r]), c.ws, c.snapshot, t)
           IN /\ again.ctx = context[r]
              /\ again.pulled = 0
              /\ again.updated = 0
              /\ again.skipped = Len(c.snapshot)

\* C3 witness: the first pull inserted one item and overwrote another, and the
\* clock has moved on since
C3_Witness ==
  \E r \in Replicas :
    LET c == call[r]
    IN /\ PullApplied(c)
       /\ c.pull.pulled >= 1 /\ c.pull.updated >= 1
       /\ now > c.log[Len(c.log)].at

\* C9: a pull leaves id, workspace_id, created_at, remote_id and deleted_at of
\* every row that existed before it as they were, and a row it overwrites
\* differs from the old row only in type, content, tags, scope, meta, updated_at
\* and synced_at.
C9_PullUpdateFrame ==
  \A r \in Replicas :
    LET c == call[r]
    IN PullApplied(c) =>
         \A id \in DOMAIN c.prePull :
           LET x == c.prePull[id]
               y == context[r][id]
           IN /\ id \in DOMAIN context[r]
              /\ y.id = x.id /\ y.workspace_id = x.workspace_id
              /\ y.created_at = x.created_at /\ y.remote_id = x.remote_id
              /\ y.deleted_at = x.deleted_at
              /\ y = [x EXCEPT !.type = y.type, !.content = y.content, !.tags = y.tags,
                               !.scope = y.scope, !.meta = y.meta,
                               !.updated_at = y.updated_at, !.synced_at = y.synced_at]

\* C9 witness: the pull overwrote a soft-deleted row that has a remote_id other
\* than its id
C9_Witness ==
  \E r \in Replicas :
    LET c == call[r]
    IN /\ PullApplied(c)
       /\ \E id \in DOMAIN c.prePull :
            /\ c.prePull[id].deleted_at # NULL
            /\ c.prePull[id].remote_id # id
            /\ context[r][id].content # c.prePull[id].content
            /\ context[r][id].updated_at > c.prePull[id].updated_at

\* what replica r holds: its live items, named by their remote identity
ItemsOf(r) ==
  { [key |-> IF row.remote_id # NULL THEN row.remote_id ELSE row.id,
     type |-> row.type, content |-> row.content, tags |-> row.tags,
     scope |-> row.scope, meta |-> row.meta] :
    row \in { x \in Rows(context[r]) : x.workspace_id = WsId /\ x.deleted_at = NULL } }

Converged == ItemsOf("A") = ItemsOf("B")

\* a bidirectional sync of replica r would push nothing and pull nothing new
SyncIsNoop(r) ==
  /\ SelectPending(context[r], WsId) = {}
  /\ \A m \in SyncPullItems(StripWorkspacePrefix(workspaces[r][WsId].remote_id),
                            MaxSynced(context[r], WsId)) :
       /\ FindLocal(context[r], m.id) # {}
       /\ \A x \in FindLocal(context[r], m.id) : ~RemoteIsNewer(m, x)

\* local edits have stopped and no sync of either replica can change anything
Quiet == stopped /\ \A r \in Replicas : SyncIsNoop(r)

Settled == Quiet /\ \A r \in Replicas : call[r].pc = "idle"

\* C4: two replicas of one remote workspace that have stopped editing and keep
\* running bidirectional sync against a reachable remote eventually hold the
\* same items with the same content.
C4_Convergence == stopped ~> Converged

\* the safety half of the same statement: once edits have stopped, both calls
\* have returned and no further sync can change anything, the replicas agree
SettledReplicasAgree == Settled => Converged

\* once no sync can change anything, the stores and the remote stay as they
\* are whatever runs: the replicas do not agree later either
QuietIsFinal ==
  [][Quiet => (Quiet' /\ context' = context /\ remote' = remote)]_vars

\* ------------------------------------------------ local writes and sync stamps
\* the step is a step of replica r's sync call (push or pull)
SyncStepOf(r) == call'[r] # call[r]

\* C11: synced_at of a context row is set or changed only by a step of a push
\* or a pull; a local write (context add, link add, ...) leaves synced_at of
\* every existing row alone and inserts rows with synced_at NULL.
C11_OnlySyncStampsSyncedAt ==
  [][\A r \in Replicas :
       ~SyncStepOf(r) =>
         \A id \in DOMAIN context'[r] :
           context'[r][id].synced_at =
             (IF id \in DOMAIN context[r] THEN context[r][id].synced_at ELSE NULL)]_vars

\* ------------------------------------------------ offline-first local writes
\* C12: a local write command that passes its local validations inserts its
\* row whatever the remote call does: for context add, link add, mount add and
\* init, whenever the command can run at all, it can run with each remote
\* outcome (reply, offline sentinel or error reply, throw) and then ends with
\* the new row in the store.
C12_LocalWritePersists ==
  \A o \in Outcomes :
    /\ ENABLED AddContext("A", Outcomes, MaxStoreItems, {NotePayload}) =>
         ENABLED (/\ AddContext("A", {o}, MaxStoreItems, {NotePayload})
                  /\ Cardinality(DOMAIN context'["A"]) = 1 + Cardinality(DOMAIN context["A"]))
    /\ \A f \in Ids, t \in Ids :
         ENABLED LinkAddPair("A", f, t, Outcomes, MaxStoreLinks) =>
           ENABLED (/\ LinkAddPair("A", f, t, {o}, MaxStoreLinks)
                    /\ LinkExists(links'["A"], f, t))
    /\ ENABLED MountAdd("A", Outcomes, Paths) =>
         ENABLED (MountAdd("A", {o}, Paths) /\ mounts'["A"] # mounts["A"])
    /\ (ENABLED InitWorkspace("A", Outcomes) /\ (o = "ok" => remoteWs < MaxInits)) =>
         ENABLED (InitWorkspace("A", {o}) /\ WsId \in DOMAIN workspaces'["A"])

\* a context row and a link written while the remote could not be reached:
\* the workspace is bound, the rows are in the store, the remote has neither
C12_Witness ==
  /\ WsId \in DOMAIN workspaces["A"]
  /\ IsBound(workspaces["A"][WsId])
  /\ \E id \in DOMAIN context["A"] :
       /\ context["A"][id].remote_id = NULL
       /\ \A k \in DOMAIN remote : DOMAIN remote[k] = {}
  /\ links["A"] # {}
  /\ remoteLinks = {}

\* ------------------------------------------------ interruption and resumption
\* every item the call started with either has the sync state it had then, or
\* carries the stamp of a push of this call that the remote has accepted
CoherentPartialState(r) ==
  LET c == call[r]
  IN (c.op \in {"push", "sync"} /\ NoPullYet(c)) =>
       \A id \in DOMAIN c.pre :
         \/ /\ context[r][id].remote_id = c.pre[id].remote_id
            /\ context[r][id].synced_at = c.pre[id].synced_at
         \/ \E i \in PushEntries(c) :
              /\ c.log[i].id = id /\ c.log[i].out = "ok"
              /\ context[r][id].synced_at = c.log[i].at
              /\ context[r][id].remote_id = id
              /\ id \in DOMAIN remote[c.rws]

\* pushChanges has returned and every item it sent was accepted
PushAllAccepted(c) == PushOver(c) /\ NoPullYet(c) /\ c.push.failed = 0

RowsWritten(before, after) ==
  { id \in DOMAIN after : id \notin DOMAIN before \/ after[id] # before[id] }

\* no remote call of one kind is made twice for the same item or link, every
\* call is for a selected item or an existing link, and a pull handles each
\* fetched item once
BoundedWork(r) ==
  LET c == call[r]
  IN /\ \A i, j \in 1..Len(c.log) :
          (i # j /\ c.log[i].call = c.log[j].call) => c.log[i].id # c.log[j].id
     /\ Attempted(c) \subseteq { x.id : x \in SelectPending(c.pre, c.ws) }
     /\ { c.log[i].id : i \in LinkEntries(c) } \subseteq { l.id : l \in links[r] }
     /\ Len(c.log) <= Cardinality(SelectPending(c.pre, c.ws)) + Cardinality(links[r]) + 2
     /\ c.push.pushed + c.push.failed = Cardinality(PushEntries(c))
     /\ c.pc # "idle" =>
          Cardinality(RowsWritten(c.pre, IF NoPullYet(c) THEN context[r] ELSE c.prePull))
            <= c.push.pushed
     /\ (c.pull.ran /\ c.pc = "done" /\ c.pull.error = "none") =>
          /\ c.pull.pulled + c.pull.updated + c.pull.skipped = Len(c.snapshot)
          /\ Cardinality(RowsWritten(c.prePull, context[r])) <= Len(c.snapshot)

\* every step of a running call makes one more remote call or ends the call
CallProgress(r) ==
  (call[r].pc # "idle" /\ call'[r] # call[r]) =>
    \/ Len(call'[r].log) = Len(call[r].log) + 1
    \/ call'[r].pc = "idle"

\* C14: one push sends each selected item and each link at most once, one pull
\* handles each fetched item once, nothing is retried whether calls succeed or
\* fail; the remote calls and row writes of a call are bounded by the pending
\* items and links (push) or the fetched items (pull), and every step of a
\* call uses up one of them, so the call ends.
C14_NoRetryBoundedWork ==
  /\ [](\A r \in Replicas : BoundedWork(r))
  /\ [][\A r \in Replicas : CallProgress(r)]_vars

\* a sync that is over: one item failed and one was accepted, a link was sent,
\* and the pull handled what it fetched
C14_Witness ==
  LET c == call["A"]
  IN /\ c.op = "sync" /\ c.pc = "done"
     /\ c.push.failed >= 1 /\ c.push.pushed >= 1
     /\ LinkEntries(c) # {}
     /\ c.pull.ran /\ c.pull.error = "none"

\* ------------------------------------------------ link-push failures
\* the step is one iteration of the link loop of replica r's push
LinkStepOf(r) ==
  /\ Len(call'[r].log) = Len(call[r].log) + 1
  /\ call'[r].log[Len(call'[r].log)].call = "linkContext"

\* the result of the push counts the item calls only, and once the push is
\* over every selected link has been attempted
LinkFailuresSwallowed(r) ==
  LET c == call[r]
      failedItems == { i \in PushEntries(c) : c.log[i].out # "ok" }
  IN LinkEntries(c) # {} =>
       /\ c.push.error = "none"
       /\ c.push.failed = Cardinality(failedItems)
       /\ c.push.pushed = Cardinality(PushEntries(c) \ failedItems)
       /\ Len(c.push.errors) = c.push.failed
       /\ c.pc = "done" =>
            { c.log[i].id : i \in LinkEntries(c) } =
              { l.id : l \in SelectLinks(context[r], links[r], c.ws) }

\* C15: during push a link whose remote call fails (throw, offline sentinel)
\* changes neither the counts and error list of the result nor any context
\* row, does not end the push, and the links after it are still attempted.
C15_LinkFailuresSwallowed ==
  /\ [](\A r \in Replicas : LinkFailuresSwallowed(r))
  /\ [][\A r \in Replicas :
          LinkStepOf(r) =>
            /\ context' = context
            /\ call'[r].push = call[r].push
            /\ call'[r].lnks = Tail(call[r].lnks)]_vars

\* a push over two links: the first call threw, the second was made and
\* accepted, and the result reports no failure
C15_Witness ==
  LET c == call["A"]
  IN /\ c.op = "push" /\ c.pc = "done"
     /\ \E i, j \in LinkEntries(c) :
          i < j /\ c.log[i].out = "throw" /\ c.log[j].out = "ok"
     /\ c.push.failed = 0 /\ c.push.errors = <<>> /\ c.push.error = "none"

\* ------------------------------------------------ link uniqueness
\* C16: after any sequence of operations through any entry point (CLI link
\* add, MCP link tool, push, pull) the store holds at most one link row per
\* ordered pair (from_id, to_id).
C16_LinkUniqueness ==
  \A r \in Replicas : \A l1 \in links[r], l2 \in links[r] :
    (l1.from_id = l2.from_id /\ l1.to_id = l2.to_id) => l1 = l2

\* ------------------------------------------------ duplicate link add
\* the store of replica r holds a link row from f to t
HasLinkRow(r, f, t) == \E l \in links[r] : l.from_id = f /\ l.to_id = t

\* link add of (f, t) gets as far as the duplicate check: no call is running,
\* the workspace exists and both items are found in it
LinkAddReachesCheck(r, f, t) ==
  /\ ~stopped /\ call[r].pc = "idle"
  /\ WsId \in DOMAIN workspaces[r]
  /\ f \in DOMAIN context[r] /\ t \in DOMAIN context[r]
  /\ context[r][f].workspace_id = WsId /\ context[r][t].workspace_id = WsId

\* C17: once link add(A, B, r) has succeeded, link add(A, B, r') with any
\* relation and any remote outcome is rejected: no row is inserted and no
\* remote call is made; link add(B, A, r') is accepted when no row from B to
\* A exists, the row from A to B stays, and rows are only ever added.
C17_DuplicateRejectedReverseAccepted ==
  /\ [](\A r \in Replicas : \A f \in Ids, t \in Ids :
          HasLinkRow(r, f, t) =>
            /\ ~ENABLED LinkAddPair(r, f, t, Outcomes, Cardinality(links[r]) + 1)
            /\ (LinkAddReachesCheck(r, t, f) /\ ~HasLinkRow(r, t, f)) =>
                 ENABLED LinkAddPair(r, t, f, Outcomes, Cardinality(links[r]) + 1))
  /\ [][\A r \in Replicas :
          /\ links[r] \subseteq links'[r]
          /\ Cardinality(links'[r]) <= Cardinality(links[r]) + 1
          /\ \A l \in links'[r] \ links[r] :
               ~HasLinkRow(r, l.from_id, l.to_id)]_vars

\* both directions of one pair of distinct items are stored, the reverse
\* edge added after the forward one
C17_Witness ==
  \E l1 \in links["A"], l2 \in links["A"] :
    /\ l1.from_id # l1.to_id
    /\ l2.from_id = l1.to_id /\ l2.to_id = l1.from_id
    /\ l1.id < l2.id

\* ------------------------------------------------ soft-deleted rows and reads
\* C18: a soft-deleted context item (deleted_at non-null) is returned by no
\* read path - context list, the MCP brief, recall and digest tools, short-id
\* resolution for link commands - while its row stays in the store.
C18_SoftDeletedNeverRead ==
  \A r \in Replicas : \A id \in DOMAIN context[r] :
    LET x == context[r][id]
        found == FindContextByShortId(context[r], FullArg(id), x.workspace_id)
    IN x.deleted_at # NULL =>
         /\ x \notin ContextList(context[r], x.workspace_id)
         /\ x \notin HandleBrief(context[r], x.workspace_id)
         /\ \A cutoff \in 0..MaxTime :
              /\ x \notin HandleRecall(context[r], x.workspace_id, cutoff)
              /\ x \notin HandleDigest(context[r], x.workspace_id, cutoff)
         /\ ~(found.found /\ found.item = x)

C20_UpdatedNotBeforeCreated ==
  /\ [](\A r \in Replicas : \A id \in DOMAIN context[r] :
          context[r][id].updated_at >= context[r][id].created_at)
  /\ [][\A r \in Replicas : \A id \in DOMAIN context'[r] :
          IF id \in DOMAIN context[r]
          THEN context'[r][id].created_at = context[r][id].created_at
          ELSE call[r].pc = "fetch" =>
                 \E k \in DOMAIN remote :
                   /\ id \in DOMAIN remote[k]
                   /\ context'[r][id].created_at = remote[k][id].created_at
                   /\ context'[r][id].updated_at = remote[k][id].updated_at]_vars

\* a finished pull has updated a local row, which keeps its created_at and now
\* has updated_at later than it
C20_Witness ==
  LET c == call["A"]
  IN /\ c.pc = "done" /\ c.pull.updated >= 1
     /\ \E id \in DOMAIN context["A"] \cap DOMAIN c.prePull :
          /\ context["A"][id].updated_at > c.prePull[id].updated_at
          /\ context["A"][id].created_at = c.prePull[id].created_at
          /\ context["A"][id].updated_at > context["A"][id].created_at

\* ------------------------------------------------ duplicate round trip
\* the row is live and among the rows the guard's query returns, whatever the
\* order of rows with equal created_at
InGuardWindow(r, x) ==
  /\ x.deleted_at = NULL
  /\ \A win \in GuardWindows(context[r], x.workspace_id) : x \in win

\* an add command of replica r gets as far as the duplicate check
AddReachesCheck(r) ==
  /\ ~stopped /\ call[r].pc = "idle"
  /\ WsId \in DOMAIN workspaces[r]
  /\ FreshIds # {}

\* C21: once content C is the content of an item the guard looks at, context
\* add of C without --force is blocked (no row is inserted) and the duplicate
\* it reports has similarity 100; with --force the add goes through, under a
\* new id, and every row already stored stays as it is.
C21_DuplicateRoundTrip ==
  /\ [](\A r \in Replicas : \A x \in Rows(context[r]) :
          InGuardWindow(r, x) =>
            /\ \A win \in GuardWindows(context[r], WsId) :
                 /\ CheckDuplicate(win, x.content) # {}
                 /\ \A d \in CheckDuplicate(win, x.content) : d.similarity = 100
            /\ ~ENABLED ContextAddOf(r, x.content, FALSE, Outcomes,
                                     Cardinality(DOMAIN context[r]) + 1)
            /\ AddReachesCheck(r) =>
                 ENABLED ContextAddOf(r, x.content, TRUE, Outcomes,
                                      Cardinality(DOMAIN context[r]) + 1))
  /\ [][\A r \in Replicas :
          /\ \A id \in DOMAIN context[r] :
               id \in DOMAIN context'[r] /\ context'[r][id].content = context[r][id].content
          /\ Cardinality(DOMAIN context'[r]) <= Cardinality(DOMAIN context[r]) + 1]_vars

\* the store holds the same content twice, in two live rows with different
\* ids created at the same time: the second add was forced
C21_Witness ==
  /\ Cardinality(DOMAIN context["A"]) = 2
  /\ \E i \in DOMAIN context["A"], j \in DOMAIN context["A"] :
       /\ i # j
       /\ context["A"][i].content = context["A"][j].content
       /\ context["A"][i].created_at = context["A"][j].created_at
       /\ context["A"][i].deleted_at = NULL /\ context["A"][j].deleted_at = NULL

\* ------------------------------------------------ near duplicate
\* C22: in a workspace whose only item is "API must return JSON", context add
\* of "All API responses must be JSON" without --force is blocked with a
\* reported similarity of at least 70, and no row is inserted.
C22_NearDuplicateBlocked ==
  \A r \in Replicas :
    (/\ Cardinality(DOMAIN context[r]) = 1
     /\ \A x \in Rows(context[r]) :
          x.content = "API must return JSON" /\ x.deleted_at = NULL /\ x.workspace_id = WsId) =>
      /\ \A win \in GuardWindows(context[r], WsId) :
           /\ CheckDuplicate(win, "All API responses must be JSON") # {}
           /\ \A d \in CheckDuplicate(win, "All API responses must be JSON") :
                d.similarity >= DuplicateThreshold
      /\ ~ENABLED ContextAddOf(r, "All API responses must be JSON", FALSE, Outcomes,
                               Cardinality(DOMAIN context[r]) + 1)

\* ------------------------------------------------ the guard at every entry point
\* C23: through context add, the add shorthand and the MCP add tool alike, an
\* add that is not forced inserts a row only when the Similarity Guard finds no
\* item of similarity >= 0.7 among the rows it looks at: every row created by
\* a non-forced add has passed the guard.
C23_EveryAddPassesGuard ==
  [][\A r \in Replicas : \A id \in DOMAIN context'[r] \ DOMAIN context[r] :
        \E win \in GuardWindows(context[r], context'[r][id].workspace_id) :
          CheckDuplicate(win, context'[r][id].content) = {}]_vars

\* ------------------------------------------------ the guard's window
\* the rows of the workspace whose similarity to the content reaches the threshold
SimilarRows(r, content) ==
  { x \in Rows(context[r]) :
      x.workspace_id = WsId /\ AtLeastThreshold(SimilarityOf[content][x.content]) }

\* the row is in none of the sets the guard's query may return
OutsideGuardWindow(r, x) ==
  \A win \in GuardWindows(context[r], x.workspace_id) : x \notin win

\* C24: the guard looks at the most recently created non-deleted items of the
\* workspace, up to the limit of its query: a candidate similar to an item
\* inside that window is blocked, a candidate similar only to items older than
\* the window or soft-deleted is not blocked, and a soft-deleted item is never
\* in the window nor takes a place in it.
C24_GuardWindow ==
  \A r \in Replicas :
    LET live == { x \in Rows(context[r]) : x.workspace_id = WsId /\ x.deleted_at = NULL }
    IN /\ \A win \in GuardWindows(context[r], WsId) :
            /\ win \subseteq live
            /\ Cardinality(win) = GuardLimit \/ win = live
            /\ \A x \in win, y \in live \ win : x.created_at >= y.created_at
       /\ \A content \in GuardTexts :
            /\ (\E x \in SimilarRows(r, content) : InGuardWindow(r, x)) =>
                 ~ENABLED ContextAddOf(r, content, FALSE, Outcomes,
                                       Cardinality(DOMAIN context[r]) + 1)
            /\ (/\ AddReachesCheck(r)
                /\ \A x \in SimilarRows(r, content) :
                     x.deleted_at # NULL \/ OutsideGuardWindow(r, x)) =>
                 ENABLED ContextAddOf(r, content, FALSE, Outcomes,
                                      Cardinality(DOMAIN context[r]) + 1)

\* an unforced add was accepted although a live item with the same content
\* exists: that item is older than the window, which a newer item fills
C24_Witness ==
  \E i \in DOMAIN context["A"], j \in DOMAIN context["A"] :
    LET x == context["A"][i]
        y == context["A"][j]
    IN /\ x.content = y.content /\ x.rowid < y.rowid
       /\ x.deleted_at = NULL /\ y.deleted_at = NULL
       /\ OutsideGuardWindow("A", x)
       /\ \E k \in DOMAIN context["A"] :
            /\ context["A"][k].deleted_at = NULL
            /\ context["A"][k].created_at > x.created_at
            /\ context["A"][k].rowid < y.rowid

\* ------------------------------------------------ graph walk
\* the items one link away from the seed, links followed in either direction
OneAway(ctx, lks, seed) ==
  { i \in DOMAIN ctx \ {seed} :
      \E l \in JoinedLinks(ctx, lks) :
        (l.from_id = seed /\ l.to_id = i) \/ (l.to_id = seed /\ l.from_id = i) }

\* the items whose shortest link distance from the seed is 2
TwoAway(ctx, lks, seed) ==
  { i \in DOMAIN ctx \ ({seed} \cup OneAway(ctx, lks, seed)) :
      \E j \in OneAway(ctx, lks, seed) : i \in OneAway(ctx, lks, j) }

\* C25: related(seed, depth 1) reports only items exactly one link away from
\* the seed; related(seed, depth 2) never reports the seed, never an item
\* whose shortest link distance from the seed exceeds 2, and never the same
\* item twice; a depth outside [1, 2] behaves as the nearest bound.
C25_TraversalBound ==
  \A seed \in DOMAIN context["A"], d \in DepthArgs, resolve \in Resolutions(context["A"]) :
    LET ctx == context["A"]
        lks == links["A"]
        res == Related(ctx, lks, seed, d, resolve)
    IN /\ \A n \in 1..Len(res) :
            /\ res[n].item # seed
            /\ res[n].item \in OneAway(ctx, lks, seed) \cup TwoAway(ctx, lks, seed)
            /\ DepthOf(d) = 1 => res[n].item \in OneAway(ctx, lks, seed)
            /\ \A m \in 1..Len(res) : res[m].item = res[n].item => m = n
       /\ d < 1 => res = Related(ctx, lks, seed, 1, resolve)
       /\ d > 2 => res = Related(ctx, lks, seed, 2, resolve)

\* C26: every item related reports carries a hop count equal to its shortest
\* link distance from the seed: an item reachable both directly and through a
\* hop-1 neighbour is reported once, with hops = 1, and every item reported
\* with hops = 2 is linked to some reported hop-1 item.
C26_ShallowestDiscoveryWins ==
  \A seed \in DOMAIN context["A"], resolve \in Resolutions(context["A"]) :
    LET ctx == context["A"]
        lks == links["A"]
        res == Related(ctx, lks, seed, 2, resolve)
        reported(h) == { res[n].item : n \in { m \in 1..Len(res) : res[m].hops = h } }
    IN /\ reported(1) = OneAway(ctx, lks, seed)
       /\ reported(1) \cap reported(2) = {}
       /\ \A i \in reported(2) :
            /\ i \in TwoAway(ctx, lks, seed)
            /\ \E j \in reported(1) : i \in OneAway(ctx, lks, j)

\* ------------------------------------------------ prefix resolution
\* the mounts whose path the target starts with
Matching(mnts, targetPath) ==
  { m \in mnts : StartsWith(PathChars[targetPath], PathChars[m.path]) }

\* C27: when mounts with paths P1 and P2 both match the query path and P1 is
\* an ancestor of P2, the resolver does not return the P1 mount: it returns the
\* mount with the longest matching path, the same one whatever the order in
\* which the mounts were inserted, and no mount when none matches.
C27_LongestPrefixWins ==
  \A q \in QueryPaths :
    LET matching == Matching(mounts["A"], q)
        found == FindWorkspaceForPath(mounts["A"], workspaces["A"], q)
    IN /\ Cardinality(found) = 1
       /\ \A res \in found :
            /\ matching = {} <=> res.mount = NoMount
            /\ matching # {} =>
                 /\ res.mount \in matching
                 /\ res.workspace = res.mount.workspace_id
                 /\ \A m \in matching :
                      Len(PathChars[m.path]) <= Len(PathChars[res.mount.path])
                 /\ \A m1 \in matching, m2 \in matching :
                      (m1 # m2 /\ StartsWith(PathChars[m2.path], PathChars[m1.path])) =>
                        res.mount # m1

\* /repo/service was mounted before its ancestor /repo, and a path under both
\* resolves to /repo/service
C27_Witness ==
  \E m1 \in mounts["A"], m2 \in mounts["A"] :
    /\ m1.path = "/repo" /\ m2.path = "/repo/service" /\ m2.id < m1.id
    /\ \A res \in FindWorkspaceForPath(mounts["A"], workspaces["A"], "/repo/service/src/lib") :
         res.mount = m2

\* ------------------------------------------------ ambiguous references
\* the identifier matches more than one context item of the workspace
Ambiguous(r, arg) == Cardinality(ShortIdMatches(context[r], arg, WsId)) > 1

\* C28: when an identifier given to link add or to the MCP link tool matches
\* more than one context item, the operation is aborted: it inserts no link and
\* makes no remote call, and never picks one of the candidates.
C28_AmbiguousReferenceAborts ==
  \A r \in Replicas : \A from \in IdArgs, to \in IdArgs :
    (Ambiguous(r, from) \/ Ambiguous(r, to)) =>
      /\ ~ENABLED LinkAddOf(r, from, to, Outcomes, Cardinality(links[r]) + 1)
      /\ ~ENABLED HandleLinkOf(r, from, to, Cardinality(links[r]) + 1)

\* ----------------------------------------------------------- sessions
\* C29: when session start and session end run one after another, a workspace
\* never has more than one session with ended_at null, and session start
\* issued while a session is active is rejected and inserts no session row.
C29_SingleActiveSession ==
  \A r \in Replicas :
    /\ Cardinality(Active(sessions[r], WsId)) <= 1
    /\ Active(sessions[r], WsId) # {} =>
         ~ENABLED SessionStart(r, Cardinality(sessions[r]) + 1)

\* a session was started, ended, and another one started, which is active
C29_Witness ==
  \E e \in sessions["A"], a \in sessions["A"] :
    /\ e.ended_at # NULL /\ a.ended_at = NULL
    /\ a.id > e.id
    /\ a.started_at >= e.ended_at

\* the rows of the sessions table that a step has changed or removed
ChangedSessions(r) == { s \in sessions[r] : s \notin sessions'[r] }

\* a is a session of the workspace with ended_at null, and no session with
\* ended_at null was started later
IsLatestActive(r, a) ==
  /\ a \in sessions[r] /\ a.workspace_id = WsId /\ a.ended_at = NULL
  /\ \A o \in sessions[r] :
       (o.workspace_id = WsId /\ o.ended_at = NULL) => o.started_at <= a.started_at

NoneActive(r) == \A o \in sessions[r] : o.workspace_id = WsId => o.ended_at # NULL

\* C30: when a workspace has several sessions with ended_at null,
\* getActiveSession returns one with the latest started_at, and session end
\* sets ended_at on exactly that session and on no other row; session end
\* with no active session is rejected and changes nothing.
C30_EndsLatestActive ==
  /\ [](\A r \in Replicas :
          /\ \A a \in GetActiveSession(sessions[r], WsId) : IsLatestActive(r, a)
          /\ (GetActiveSession(sessions[r], WsId) = {}) <=> NoneActive(r)
          /\ NoneActive(r) => ~ENABLED SessionEnd(r))
  /\ [][\A r \in Replicas :
          ChangedSessions(r) # {} =>
            \E a \in sessions[r] :
              /\ IsLatestActive(r, a)
              /\ ChangedSessions(r) = {a}
              /\ sessions'[r] = (sessions[r] \ {a}) \cup {[a EXCEPT !.ended_at = now]}]_vars

\* two sessions were active at once and session end closed the later one:
\* the earlier one is still active
C30_Witness ==
  \E e \in sessions["A"], a \in sessions["A"] :
    /\ e.ended_at # NULL /\ a.ended_at = NULL
    /\ a.started_at < e.started_at
    /\ a.id < e.id

\* ------------------------------------------------------ pull completeness
\* the step in which pullChanges of replica r receives its items and returns
\* a result without an error
PullSucceeds(r) ==
  /\ call[r].pc = "fetch"
  /\ call'[r].pc = "done"
  /\ call'[r].pull.error = "none"

\* the store holds a row for the remote item m that is at least as new
HoldsCurrent(ctx, m) ==
  \E row \in Rows(ctx) :
    /\ row.id = m.id \/ row.remote_id = m.id
    /\ row.updated_at >= m.updated_at

\* C31: a successful pull applies every remote change the replica has not yet
\* seen: after it, every item of the remote workspace has a local counterpart
\* that is not older, also an item written to the remote by another client
\* before this replica's latest push.
C31_PullCompleteness ==
  [][\A r \in Replicas :
       PullSucceeds(r) =>
         \A m \in Rows(remote[call[r].rws]) : HoldsCurrent(context'[r], m)]_vars

\* ------------------------------------------------ one row per remote item
\* the remote item a row stands for: its remote_id once stamped
SameRemoteIdentity(x, y) ==
  /\ x.remote_id # NULL
  /\ x.remote_id = y.remote_id

\* C32: under every interleaving of context add, push and pull on one store,
\* no two local context rows share a remote identity: pull never inserts a row
\* for a remote item that an add still in flight is about to stamp on its row.
C32_OneRowPerRemoteItem ==
  \A r \in Replicas : \A x \in Rows(context[r]), y \in Rows(context[r]) :
    SameRemoteIdentity(x, y) => x.id = y.id

\* ------------------------------------------------ delivery of links
\* the names an item goes by on the remote
RemoteNames(ctx, id) ==
  {id} \cup (IF id \in DOMAIN ctx /\ ctx[id].remote_id # NULL THEN {ctx[id].remote_id} ELSE {})

\* the remote holds the link l of replica r
OnRemote(r, l) ==
  \E rl \in remoteLinks :
    /\ rl.relation = l.relation
    /\ rl.from \in RemoteNames(context[r], l.from_id)
    /\ rl.to \in RemoteNames(context[r], l.to_id)

\* C33: once a push has completed without a top-level error, every link of the
\* local store that had not reached the remote has been sent to it by that
\* push, also a link whose source item was first pushed in the same call.
C33_LinksDelivered ==
  \A r \in Replicas :
    LET c == call[r]
    IN (c.op = "push" /\ c.pc = "done" /\ c.push.error = "none") =>
         \A l \in links[r] :
           (l.from_id \in DOMAIN context[r] /\ context[r][l.from_id].workspace_id = c.ws) =>
             \/ OnRemote(r, l)
             \/ l.id \in { c.log[i].id : i \in LinkEntries(c) }

\* ------------------------------------------------ pull stays in its workspace
\* the step applies the items fetched by a pull of replica r
PullApplies(r) == call[r].pc = "fetch" /\ call'[r].pc = "done"

\* C34: a pull of workspace W inserts and updates only rows whose
\* workspace_id is W: a row of another local workspace is never changed by
\* it, also when a remote item carries that row's id or remote_id.
C34_PullStaysInWorkspace ==
  [][\A r \in Replicas :
       PullApplies(r) =>
         /\ \A id \in DOMAIN context[r] :
              context[r][id].workspace_id # call[r].ws =>
                (id \in DOMAIN context'[r] /\ context'[r][id] = context[r][id])
         /\ \A id \in DOMAIN context'[r] :
              (id \notin DOMAIN context[r] \/ context'[r][id] # context[r][id]) =>
                context'[r][id].workspace_id = call[r].ws]_vars

\* ------------------------------------------------ quiescence after sync
\* a bidirectional sync of replica r has returned: both phases ran without an
\* error and every item push succeeded
SyncSucceeded(r) ==
  LET c == call[r]
  IN /\ c.op = "sync" /\ c.pc = "done"
     /\ c.push.error = "none" /\ c.push.failed = 0
     /\ c.pull.ran /\ c.pull.error = "none"

\* C35: after a bidirectional sync in which every item push succeeded, and
\* before any local write, no context item of the workspace is pending push:
\* every live item has synced_at set and updated_at <= synced_at, also an item
\* that the pull inserted or overwrote.
C35_SyncQuiescence ==
  \A r \in Replicas :
    SyncSucceeded(r) =>
      /\ \A row \in Rows(context[r]) : ~PendingPush(row, call[r].ws)
      /\ PendingOrders(context[r], call[r].ws) = {<<>>}

\* ------------------------------------------------ overlapping pushes
\* no push of the store is running
NoPushRunning == \A p \in Replicas : call[p].pc \in {"idle", "done"}

\* the remote workspace k holds the item the row stands for
SentTo(k, row) ==
  /\ k \in DOMAIN remote
  /\ row.id \in DOMAIN remote[k] \/ row.remote_id \in DOMAIN remote[k]

\* C36: when two pushes of one unbound workspace overlap, after both have
\* finished every context item marked synced (synced_at non-null) was sent to
\* the remote workspace the local workspace is bound to.
C36_SyncedMeansSentToBoundWorkspace ==
  NoPushRunning =>
    \A row \in Rows(context["A"]) :
      (row.workspace_id = WsId /\ row.synced_at # NULL) =>
        /\ IsBound(workspaces["A"][WsId])
        /\ SentTo(StripWorkspacePrefix(workspaces["A"][WsId].remote_id), row)

\* ------------------------------------------------ overlapping session starts
\* the step inserts a session row into the store of replica r
InsertsSession(r) == \E s \in sessions'[r] : s.id \notin { o.id : o \in sessions[r] }

\* C37: when session start commands of one workspace overlap, each making
\* its check and then its insert, at most one of them inserts a session: no
\* session is inserted while another is active, and the workspace never has
\* more than one active session.
C37_OverlappingStartsInsertOnce ==
  /\ [](\A r \in Replicas : Cardinality(Active(sessions[r], WsId)) <= 1)
  /\ [][\A r \in Replicas : InsertsSession(r) => Active(sessions[r], WsId) = {}]_vars

\* ------------------------------------------------ pull after push
\* the call has asked the remote for changes
PullAttempted(c) == \E i \in 1..Len(c.log) : c.log[i].call = "syncPull"

\* C38: a bidirectional sync runs its pull phase if and only if its push
\* phase returned no top-level error: when push fails as a whole (workspace
\* not found, remote workspace creation failed) no pull is attempted and no
\* context row changes; failures of single items do not suppress the pull.
C38_PullIffPushReturned ==
  \A r \in Replicas :
    LET c == call[r]
    IN (c.op = "sync" /\ c.pc = "done") =>
         /\ c.pull.ran <=> (c.push.error = "none")
         /\ PullAttempted(c) <=> (c.push.error = "none")
         /\ c.push.error # "none" =>
              /\ context[r] = c.pre
              /\ c.push.pushed = 0 /\ c.push.failed = 0

\* a sync in which an item push failed and the pull was still made
C38_Witness ==
  LET c == call["A"]
  IN /\ c.op = "sync" /\ c.pc = "done"
     /\ c.push.failed > 0 /\ c.push.error = "none"
     /\ PullAttempted(c) /\ c.pull.ran

\* ------------------------------------------------ directory boundaries
\* the directory dir is the path t itself or one of its ancestor directories
IsSelfOrAncestor(dir, t) ==
  \/ PathChars[t] = PathChars[dir]
  \/ StartsWith(PathChars[t], PathChars[dir] \o <<"/">>)

\* C39: the resolver resolves a path only to a mount whose directory is the
\* path itself or one of its ancestors: a mount at /repo is never chosen for
\* /repo2/src, which only shares its leading characters, and when only such
\* mounts exist the resolver reports no workspace.
C39_ResolvesToAncestorOnly ==
  \A targetPath \in QueryPaths :
    \A res \in FindWorkspaceForPath(mounts["A"], workspaces["A"], targetPath) :
      res.mount # NoMount => IsSelfOrAncestor(res.mount.path, targetPath)

====
